---------------------------- MODULE Spec2Model ----------------------------
(***************************************************************************)
(* A model of the 68000 cores of CLK:                                      *)
(*   - the bus-timed Processor (CPU::MC68000Mk2::Processor), whose         *)
(*     run_for is a coroutine over a switch: named states are negative,    *)
(*     the resumption points generated with __COUNTER__ are the odd        *)
(*     numbers 1, 3, 5, ... in the order of the macro expansions;          *)
(*   - the instruction-level Executor (InstructionSet::M68k::Executor).    *)
(* One bus transaction is two steps: the call of the bus handler           *)
(* (BusCycle) and the Spend that follows it (SpendStep).                   *)
(***************************************************************************)
EXTENDS Integers, Sequences, FiniteSets, TLC

\* ------------------------------------------------------------ bounds

MaxDuration == 8
MaxDelay == 1
TimeFloor == 8
MaxInstructions == 1
MaxSetState == 1
MaxCount == 2
MaxIterations == 3

\* ------------------------------------------------------------ widths

Word == 65536

\* A SlicedInt32 is the pair <<high, low>> of its two 16-bit halves.
High(l) == l[1]
Low(l) == l[2]
WithHigh(l, w) == <<w, l[2]>>
WithLow(l, w) == <<l[1], w>>
WithByte(l, b) == <<l[1], (l[2] \div 256) * 256 + b>>
Byte(l) == l[2] % 256
Zero32 == <<0, 0>>
\* 32-bit addition of a small signed amount, wrapping at 2^32.
Add32(a, n) == <<(a[1] + ((a[2] + n) \div Word)) % Word, (a[2] + n) % Word>>

\* ------------------------------------------------------------ states

Reset == -1
Decode == -2
WaitForDTACK == -3
FetchOperand == -4
StoreOperand == -5
CalculateAnDn == -5
Perform_np == -6
Perform_np_n == -7

\* The resumption point ConsiderExit() generates inside case WaitForDTACK.
WaitResume == 1
\* The resumption point after the first IdleBus(7) of Reset.
ResetResume == 3

\* ------------------------------------------------------------ decoder

DataRegisterDirect == 0
AddressRegisterDirect == 1
AddressRegisterIndirect == 2
AddressRegisterIndirectWithPostincrement == 3
AddressRegisterIndirectWithPredecrement == 4
AddressRegisterIndirectWithDisplacement == 5
AddressRegisterIndirectWithIndex8bitDisplacement == 6
AbsoluteShort == 8
AbsoluteLong == 9
ProgramCounterIndirectWithDisplacement == 10
ProgramCounterIndirectWithIndex8bitDisplacement == 11
ImmediateData == 12
NoMode == 13

\* The addressing mode of a 6-bit effective-address field (mode, register).
EAMode(m, r) ==
    IF m < 7 THEN m
    ELSE CASE r = 0 -> AbsoluteShort
           [] r = 1 -> AbsoluteLong
           [] r = 2 -> ProgramCounterIndirectWithDisplacement
           [] r = 3 -> ProgramCounterIndirectWithIndex8bitDisplacement
           [] r = 4 -> ImmediateData
           [] OTHER -> NoMode

Instr(op, m0, r0, m1, r1, sz, sup) ==
    [operation |-> op, mode |-> <<m0, m1>>, reg |-> <<r0, r1>>,
     size |-> sz, requires_supervisor |-> sup]

UndefinedInstr == Instr("Undefined", NoMode, 0, NoMode, 0, 2, FALSE)

\* Predecoder::decode for the opcodes the model's memory images hold:
\*   0x4800 NBCD <ea>; 0x3000 MOVE.w <ea>,<ea>; 0x46c0 MOVE <ea>,SR;
\*   0x4e70 RESET; 0x4e71 NOP; 0x80c0 DIVU <ea>,Dn; 0x0000 ORI.b #,<ea>;
\*   the others they hold (0x46c8, 0xa000, 0xf000) are Undefined.
decode(opcode) ==
    LET m == (opcode \div 8) % 8
        r == opcode % 8
        dm == (opcode \div 64) % 8
        dr == (opcode \div 512) % 8
    IN CASE opcode \div 64 = 288 /\ EAMode(m, r) \notin {AddressRegisterDirect,
                ProgramCounterIndirectWithDisplacement,
                ProgramCounterIndirectWithIndex8bitDisplacement, ImmediateData, NoMode}
              -> Instr("NBCD", EAMode(m, r), r, NoMode, 0, 1, FALSE)
         [] opcode \div 4096 = 3 /\ EAMode(m, r) # NoMode /\ dm # 1
               /\ EAMode(dm, dr) \notin {ProgramCounterIndirectWithDisplacement,
                   ProgramCounterIndirectWithIndex8bitDisplacement, ImmediateData, NoMode}
              -> Instr("MOVEw", EAMode(m, r), r, EAMode(dm, dr), dr, 2, FALSE)
         [] opcode \div 64 = 283 /\ EAMode(m, r) \notin {AddressRegisterDirect, NoMode}
              -> Instr("MOVEtoSR", EAMode(m, r), r, NoMode, 0, 2, TRUE)
         [] opcode = 20080 -> Instr("RESET", NoMode, 0, NoMode, 0, 2, TRUE)
         [] opcode = 20081 -> Instr("NOP", NoMode, 0, NoMode, 0, 2, FALSE)
         [] opcode \div 4096 = 8 /\ dm = 3 /\ EAMode(m, r) \notin {AddressRegisterDirect, NoMode}
              -> Instr("DIVU", EAMode(m, r), r, DataRegisterDirect, dr, 2, FALSE)
         [] opcode < 64 /\ EAMode(m, r) \notin {AddressRegisterDirect,
                ProgramCounterIndirectWithDisplacement,
                ProgramCounterIndirectWithIndex8bitDisplacement, ImmediateData, NoMode}
              -> Instr("ORb", ImmediateData, 0, EAMode(m, r), r, 1, FALSE)
         [] OTHER -> UndefinedInstr

\* Preinstruction::lreg: D0-D7 are 0-7 and A0-A7 are 8-15.
lreg(instruction, index) ==
    instruction.reg[index + 1]
        + (IF instruction.mode[index + 1] = AddressRegisterDirect THEN 8 ELSE 0)

FetchOp1 == 1
FetchOp2 == 2
StoreOp1 == 4
StoreOp2 == 8

\* operand_flags<model, operation>().
operand_flags(operation) ==
    CASE operation = "NBCD" -> FetchOp1 + StoreOp1
      [] operation = "MOVEw" -> FetchOp1 + StoreOp2
      [] operation = "MOVEtoSR" -> FetchOp1
      [] operation = "DIVU" -> FetchOp1 + FetchOp2 + StoreOp2
      [] operation = "ORb" -> FetchOp1 + FetchOp2 + StoreOp2
      [] OTHER -> 0

\* ------------------------------------------------------------ status

SupervisorBit == 8192
TraceBit == 32768

\* Status::status(): the packed 16-bit status word.
StatusWord(s) ==
    s.ccr + s.interrupt_level * 256 + s.is_supervisor * SupervisorBit
        + s.trace_flag * TraceBit

\* Status::set_status(): only the implemented bits are kept.
set_status(w) ==
    [ccr |-> w % 32, interrupt_level |-> (w \div 256) % 8,
     is_supervisor |-> (w \div SupervisorBit) % 2,
     trace_flag |-> (w \div TraceBit) % 2]

\* ------------------------------------------------------------ perform

\* NBCD on a byte: 0 - value - X in packed decimal; X and C are set on a
\* borrow, Z is cleared by a non-zero result and otherwise left alone.
NBCDByte(b, x) ==
    LET d == (10 * (b \div 16) + (b % 16) + x) % 100
        r == (100 - d) % 100
    IN (r \div 10) * 16 + (r % 10)

NBCDCcr(ccr, b) ==
    LET x == (ccr \div 16) % 2
        r == NBCDByte(b, x)
        borrow == IF (10 * (b \div 16) + (b % 16) + x) % 100 = 0 THEN 0 ELSE 1
        z == IF r # 0 THEN 0 ELSE (ccr \div 4) % 2
        n == r \div 128
    IN borrow * 16 + n * 8 + z * 4 + borrow

\* The exception perform requests for a division by zero.
DivideByZero == 5

\* DIVU: the 32-bit destination divided by the 16-bit source; the remainder
\* goes to the high word and the quotient to the low word, unless the
\* quotient does not fit, which sets V and leaves the destination alone.
DIVUResult(src, dest) ==
    LET dividend == dest[1] * Word + dest[2]
        quotient == dividend \div src
    IN IF quotient >= Word THEN dest ELSE <<dividend % src, quotient>>

DIVUCcr(ccr, src, dest) ==
    LET quotient == (dest[1] * Word + dest[2]) \div src
    IN (ccr \div 16) * 16
        + (IF quotient >= Word THEN 2
           ELSE (quotient \div 32768) * 8 + (IF quotient = 0 THEN 4 ELSE 0))

\* The bitwise or of two bytes.
RECURSIVE OrBits(_, _, _)
OrBits(a, b, n) ==
    IF n = 0 THEN 0
    ELSE (IF a % 2 = 1 \/ b % 2 = 1 THEN 1 ELSE 0) + 2 * OrBits(a \div 2, b \div 2, n - 1)

ORByte(a, b) == OrBits(a, b, 8)

\* InstructionSet::M68k::perform: the new operands and status, whether it
\* tells the flow controller that the status has changed, and the exception
\* it asks the flow controller to raise (0 for none).
perform(instruction, op0, op1, status) ==
    CASE instruction.operation = "NBCD" ->
            [op0 |-> WithByte(op0, NBCDByte(Byte(op0), (status.ccr \div 16) % 2)),
             op1 |-> op1,
             status |-> [status EXCEPT !.ccr = NBCDCcr(status.ccr, Byte(op0))],
             status_updated |-> FALSE, exception |-> 0]
      [] instruction.operation = "MOVEw" ->
            [op0 |-> op0, op1 |-> WithLow(op1, Low(op0)),
             status |-> [status EXCEPT !.ccr = (status.ccr \div 16) * 16
                            + (Low(op0) \div 32768) * 8
                            + (IF Low(op0) = 0 THEN 4 ELSE 0)],
             status_updated |-> FALSE, exception |-> 0]
      [] instruction.operation = "MOVEtoSR" ->
            [op0 |-> op0, op1 |-> op1, status |-> set_status(Low(op0)),
             status_updated |-> TRUE, exception |-> 0]
      [] instruction.operation = "DIVU" ->
            IF Low(op0) = 0
            THEN [op0 |-> op0, op1 |-> op1,
                  status |-> [status EXCEPT !.ccr = (status.ccr \div 16) * 16],
                  status_updated |-> FALSE, exception |-> DivideByZero]
            ELSE [op0 |-> op0, op1 |-> DIVUResult(Low(op0), op1),
                  status |-> [status EXCEPT !.ccr = DIVUCcr(status.ccr, Low(op0), op1)],
                  status_updated |-> FALSE, exception |-> 0]
      [] instruction.operation = "ORb" ->
            [op0 |-> op0, op1 |-> WithByte(op1, ORByte(Byte(op0), Byte(op1))),
             status |-> [status EXCEPT !.ccr = (status.ccr \div 16) * 16
                            + (ORByte(Byte(op0), Byte(op1)) \div 128) * 8
                            + (IF ORByte(Byte(op0), Byte(op1)) = 0 THEN 4 ELSE 0)],
             status_updated |-> FALSE, exception |-> 0]
      [] OTHER -> [op0 |-> op0, op1 |-> op1, status |-> status,
                   status_updated |-> FALSE, exception |-> 0]

\* ------------------------------------------------------------ memory

\* A memory image: the four words of the reset vectors at 0-7, and a
\* program that repeats through the rest of the address space.
ReadWord(img, address) ==
    IF address[1] = 0 /\ address[2] < 8 THEN img.vec[(address[2] \div 2) + 1]
    ELSE img.code[((address[1] * 32768 + address[2] \div 2) % Len(img.code)) + 1]

ReadLong(img, address) ==
    <<ReadWord(img, address), ReadWord(img, Add32(address, 2))>>

Images ==
    { [vec |-> <<18, 13398, 120, 39612>>, code |-> <<18432, 18433, 18434>>],
      [vec |-> <<18, 13398, 65535, 65534>>, code |-> <<18433, 18432, 18435>>],
      [vec |-> <<65535, 65532, 0, 4>>, code |-> <<18432, 18433, 18434>>],
      [vec |-> <<18, 13398, 120, 39612>>, code |-> <<40960, 18448, 12289>>] }


\* ------------------------------------------------------------ variables

VARIABLES
    config,         \* the template arguments permit_overrun, dtack_is_implicit
    image,          \* the memory image behind the bus handler
    cpu,            \* the members of ProcessorBase / Processor
    phase,          \* "idle" (outside run_for), "dispatch" (at switch(state_)),
                    \* "bus" (about to call the bus handler), "spend" (the
                    \* handler has returned), "abort" (an assertion failed)
    site,           \* the resumption point that follows the transaction in hand
    tx,             \* the transaction most recently given to the bus handler
    delay,          \* the local that receives the handler's extra delay
    log,            \* every transaction issued, wait cycles left out
    call,           \* bookkeeping of the run_for call in progress
    stall,          \* bookkeeping of the access most recently announced
    ninstr,         \* the number of instructions decoded
    nset,           \* the number of set_state calls
    machine,        \* which machine the host has built: "Processor", "Executor",
                    \* "Macintosh" or "Enterprise"
    exec            \* the members of the Executor, its memory and its last iteration;
                    \* for a Macintosh or an Enterprise, the members of its
                    \* ConcreteMachine and the bus cycle it served last

procVars == <<config, image, cpu, phase, site, tx, delay, log, call, stall, ninstr, nset>>

vars == <<procVars, machine, exec>>

\* ------------------------------------------------------------ microcycles

\* Microcycle::length of a microcycle that nothing has set.
DefaultLength == 4
AnnounceLength == 4
WaitLength == 2

DataAnnounceSites == {5, 11, 17, 23}
DataSelectSites == {9, 15, 21, 27}
ProgramAnnounceSites == {29, 37, 43, 49}
ProgramSelectSites == {33, 41, 47, 53}
IdleSites == {3, 35, 55}
AnnounceSites == DataAnnounceSites \cup ProgramAnnounceSites
SelectSites == DataSelectSites \cup ProgramSelectSites

NoMicrocycle == [kind |-> "none", ptr |-> "none", length |-> DefaultLength]

Lines(m) == m.dtack_ \/ m.vpa_ \/ m.berr_

\* The length AccessPair leaves in the announce microcycle.
AnnounceLengthOf(cfg) == IF ~cfg.dtack_is_implicit THEN AnnounceLength ELSE DefaultLength

\* The microcycle handed to the bus handler at each transaction.
SiteMicrocycle(s, m) ==
    CASE s = WaitResume -> m.awaiting_dtack
      [] s \in IdleSites -> [kind |-> "idle", ptr |-> "none", length |-> m.idle_length]
      [] s \in DataAnnounceSites ->
            [kind |-> "announce_data", ptr |-> "temporary_address_",
             length |-> AnnounceLengthOf(config)]
      [] s \in DataSelectSites ->
            [kind |-> "read_data", ptr |-> "temporary_address_", length |-> DefaultLength]
      [] s \in ProgramAnnounceSites ->
            [kind |-> "announce_program", ptr |-> "program_counter_",
             length |-> AnnounceLengthOf(config)]
      [] OTHER ->
            [kind |-> "read_program", ptr |-> "program_counter_", length |-> DefaultLength]

\* Microcycle::address is a pointer: it is followed when the handler is called.
Resolve(mc, m) ==
    [kind |-> mc.kind, length |-> mc.length,
     address |-> CASE mc.ptr = "temporary_address_" -> m.temporary_address_
                   [] mc.ptr = "program_counter_" -> m.program_counter_
                   [] OTHER -> Zero32]

\* ------------------------------------------------------------ flow controller

did_update_status(m) ==
    LET sp == [m.stack_pointers_ EXCEPT ![m.is_supervisor_] = m.registers_[15]]
    IN [m EXCEPT !.stack_pointers_ = sp,
                 !.registers_ = [m.registers_ EXCEPT ![15] = sp[m.status_.is_supervisor]],
                 !.is_supervisor_ = m.status_.is_supervisor]

\* ------------------------------------------------------------ run_for

Bus(m, s) == [m |-> m, next |-> "bus", site |-> s]
Redispatch(m) == [m |-> m, next |-> "dispatch", site |-> 0]
Return(m) == [m |-> m, next |-> "idle", site |-> 0]
Abort(m) == [m |-> m, next |-> "abort", site |-> 0]

\* A variant of ConsiderExit() that lets a budget of exactly zero go on.
ConsiderExit_Late(t) == t < 0

\* ConsiderExit(): whether run_for returns after a deduction.
ConsiderExit(t) == t <= 0

\* A variant of ConsiderExit()'s exit that returns without recording the
\* resumption point.
Suspend_AtCaseLabel(m, s) == Return(m)

\* ConsiderExit()'s exit: state_ = __COUNTER__+1; return.
Suspend(m, s) == Return([m EXCEPT !.state_ = s])

\* A variant of Spend(n) that considers the exit whatever permit_overrun is.
SpendExits_Always(t) == ConsiderExit(t)

\* Spend(n): if constexpr (!permit_overrun) ConsiderExit().
SpendExits(t) == ~config.permit_overrun /\ ConsiderExit(t)

\* A variant of Spend(n) that forgets the handler's delay.
Spend_IgnoreDelay(t, length, extra) == t - length

\* Spend(n): the budget after the deduction for a transaction.
Spend(t, length, extra) == t - (length + extra)

\* MoveToState(x), and the break that follows it.
MoveToState(m, x) ==
    LET m2 == [m EXCEPT !.state_ = x]
    IN IF config.permit_overrun /\ m.time_remaining_ <= 0 THEN Return(m2) ELSE Redispatch(m2)

\* A variant of WaitForDTACK(x) that waits for the lines even when DTACK is
\* implicit.
WaitForDTACKMacro_AlwaysExplicit(m, s) ==
    IF ~m.dtack_ /\ ~m.vpa_ /\ ~m.berr_
    THEN Redispatch([m EXCEPT
            !.awaiting_dtack = [SiteMicrocycle(s, m) EXCEPT !.length = WaitLength],
            !.post_dtack_state_ = s + 2,
            !.state_ = WaitForDTACK])
    ELSE Bus(m, s + 4)

\* A variant of WaitForDTACK(x) that records the point after the select cycle.
WaitForDTACKMacro_SkipSelect(m, s) ==
    IF ~config.dtack_is_implicit /\ ~m.dtack_ /\ ~m.vpa_ /\ ~m.berr_
    THEN Redispatch([m EXCEPT
            !.awaiting_dtack = [SiteMicrocycle(s, m) EXCEPT !.length = WaitLength],
            !.post_dtack_state_ = s + 4,
            !.state_ = WaitForDTACK])
    ELSE Bus(m, s + 4)

\* A variant of WaitForDTACK(x) that looks at DTACK alone.
WaitForDTACKMacro_DTACKOnly(m, s) ==
    IF ~config.dtack_is_implicit /\ ~m.dtack_
    THEN Redispatch([m EXCEPT
            !.awaiting_dtack = [SiteMicrocycle(s, m) EXCEPT !.length = WaitLength],
            !.post_dtack_state_ = s + 2,
            !.state_ = WaitForDTACK])
    ELSE Bus(m, s + 4)

\* WaitForDTACK(x): park on the announced cycle, or go on to the select cycle.
WaitForDTACKMacro(m, s) ==
    IF ~config.dtack_is_implicit /\ ~m.dtack_ /\ ~m.vpa_ /\ ~m.berr_
    THEN Redispatch([m EXCEPT
            !.awaiting_dtack = [SiteMicrocycle(s, m) EXCEPT !.length = WaitLength],
            !.post_dtack_state_ = s + 2,
            !.state_ = WaitForDTACK])
    ELSE Bus(m, s + 4)

\* A variant in which temporary_address_ does not advance.
NextDataAddress_Stuck(a) == a

\* temporary_address_ += 2 between the data reads of Reset.
NextDataAddress(a) == Add32(a, 2)

\* A variant of Prefetch() that does not move the newer word up.
Prefetch_NoShift(m, s) == Bus(m, s)

\* Prefetch(), up to its announce cycle.
Prefetch(m, s) ==
    Bus([m EXCEPT !.prefetch_ = WithHigh(m.prefetch_, Low(m.prefetch_)),
                  !.shifts = @ + 1], s)

MOVEWrite == -8

\* A variant of setup_operation() that binds NBCD to Perform_np whatever its
\* operand.
setup_operation_AlwaysNp(m) ==
    CASE m.instruction_.operation = "NBCD" ->
            [ok |-> TRUE,
             m |-> [m EXCEPT !.operand_flags_ = operand_flags("NBCD"),
                             !.perform_state_ = Perform_np]]
      [] m.instruction_.operation = "MOVEw" ->
            [ok |-> TRUE,
             m |-> [m EXCEPT !.operand_flags_ = operand_flags("MOVEw"),
                             !.perform_state_ = MOVEWrite]]
      [] OTHER -> [ok |-> FALSE, m |-> m]

\* setup_operation(): the operand flags and the perform state, or a failed assert.
setup_operation(m) ==
    CASE m.instruction_.operation = "NBCD" ->
            [ok |-> TRUE,
             m |-> [m EXCEPT !.operand_flags_ = operand_flags("NBCD"),
                             !.perform_state_ =
                                 IF m.instruction_.mode[1] = DataRegisterDirect
                                 THEN Perform_np_n ELSE Perform_np]]
      [] m.instruction_.operation = "MOVEw" ->
            [ok |-> TRUE,
             m |-> [m EXCEPT !.operand_flags_ = operand_flags("MOVEw"),
                             !.perform_state_ = MOVEWrite]]
      [] OTHER -> [ok |-> FALSE, m |-> m]

\* A variant of case State::FetchOperand that reads the data register of
\* the operand's number whatever its mode.
FetchOperandCase_DataOnly(m) ==
    LET n == m.next_operand_
    IN IF (m.operand_flags_ \div (2 ^ n)) % 2 = 0
       THEN Redispatch([m EXCEPT !.state_ = m.perform_state_])
       ELSE IF n < 2 /\ m.instruction_.mode[n + 1] \in {AddressRegisterDirect, DataRegisterDirect}
       THEN Redispatch([m EXCEPT
                !.operand_ = [m.operand_ EXCEPT ![n] = m.registers_[m.instruction_.reg[n + 1]]],
                !.next_operand_ = n + 1,
                !.state_ = IF n + 1 = 2 THEN m.perform_state_ ELSE FetchOperand])
       ELSE Abort(m)

\* case State::FetchOperand.
FetchOperandCase(m) ==
    LET n == m.next_operand_
    IN IF (m.operand_flags_ \div (2 ^ n)) % 2 = 0
       THEN Redispatch([m EXCEPT !.state_ = m.perform_state_])
       ELSE IF n < 2 /\ m.instruction_.mode[n + 1] \in {AddressRegisterDirect, DataRegisterDirect}
       THEN Redispatch([m EXCEPT
                !.operand_ = [m.operand_ EXCEPT ![n] = m.registers_[lreg(m.instruction_, n)]],
                !.next_operand_ = n + 1,
                !.state_ = IF n + 1 = 2 THEN m.perform_state_ ELSE FetchOperand])
       ELSE Abort(m)

\* case State::Decode, which falls through to FetchOperand.
DecodeCase(m) ==
    LET opcode == High(m.prefetch_)
        m1 == [m EXCEPT !.opcode_ = opcode,
                        !.instruction_ = decode(opcode),
                        !.instruction_address_ = Add32(m.program_counter_, -4)]
        set == setup_operation(m1)
    IN IF ~set.ok THEN Abort(m1)
       ELSE FetchOperandCase([set.m EXCEPT !.next_operand_ = 0])

\* case State::StoreOperand.
StoreOperandCase(m) ==
    LET n == m.next_operand_
    IN IF n < 2 /\ m.instruction_.mode[n + 1] <= AddressRegisterDirect
       THEN Redispatch([m EXCEPT
                !.registers_ = [m.registers_ EXCEPT
                                    ![lreg(m.instruction_, n)] = m.operand_[n]],
                !.state_ = Decode])
       ELSE Abort(m)

\* A variant of MoveToWritePhase() that always selects the first operand.
MoveToWritePhase_FirstOperand(m) ==
    MoveToState([m EXCEPT !.next_operand_ = 0],
                IF (m.operand_flags_ \div 4) % 4 # 0 THEN StoreOperand ELSE Decode)

\* MoveToWritePhase().
MoveToWritePhase(m) ==
    MoveToState([m EXCEPT !.next_operand_ = m.operand_flags_ \div 8],
                IF (m.operand_flags_ \div 4) % 4 # 0 THEN StoreOperand ELSE Decode)

\* ProcessorBase::raise_exception(vector): its body is empty.
ProcessorBase_raise_exception(m, vector) == m

\* A variant of a perform state that leaves the call of perform out.
PerformCall_Skipped(m) == m

\* The call of InstructionSet::M68k::perform at the head of a perform state.
PerformCall(m) ==
    LET r == perform(m.instruction_, m.operand_[0], m.operand_[1], m.status_)
        m1 == [m EXCEPT !.operand_ = [[i \in {0, 1} |-> Zero32] EXCEPT ![0] = r.op0, ![1] = r.op1],
                        !.status_ = r.status,
                        !.performs = @ + 1,
                        !.performed_at = [state |-> m.state_, issued |-> m.issued,
                                          pc |-> m.program_counter_,
                                          prefetch |-> m.prefetch_]]
    IN CASE r.status_updated -> did_update_status(m1)
         [] r.exception # 0 -> ProcessorBase_raise_exception(m1, r.exception)
         [] OTHER -> m1

\* The general reset state established after the first idle cycles of Reset.
ResetStatus(m) ==
    did_update_status([m EXCEPT !.status_ = [m.status_ EXCEPT
        !.is_supervisor = 1, !.interrupt_level = 7, !.trace_flag = 0]])

\* The code of run_for from the case label x to the next call of the bus
\* handler, the next break or continue, or the return.
From(x, m) ==
    CASE x = WaitForDTACK -> Bus(m, WaitResume)
      [] x = WaitResume ->
            IF Lines(m) THEN Redispatch([m EXCEPT !.state_ = m.post_dtack_state_])
            ELSE Redispatch(m)
      [] x = Reset -> Bus([m EXCEPT !.idle_length = 7 * 4], ResetResume)
      [] x = ResetResume -> Bus([ResetStatus(m) EXCEPT !.temporary_address_ = Zero32], 5)
      [] x \in AnnounceSites -> WaitForDTACKMacro(m, x)
      [] x \in {s + 2 : s \in AnnounceSites} -> Bus(m, x + 2)
      [] x \in {9, 15, 21} ->
            Bus([m EXCEPT !.temporary_address_ = NextDataAddress(m.temporary_address_)], x + 2)
      [] x = 27 -> Prefetch(m, 29)
      [] x = 33 ->
            Bus([m EXCEPT !.program_counter_ = Add32(m.program_counter_, 2),
                          !.idle_length = 1 * 4], 35)
      [] x = 35 -> Prefetch(m, 37)
      [] x = 41 ->
            MoveToState([m EXCEPT !.program_counter_ = Add32(m.program_counter_, 2)], Decode)
      [] x = Decode -> DecodeCase(m)
      [] x = FetchOperand -> FetchOperandCase(m)
      [] x = StoreOperand -> StoreOperandCase(m)
      [] x = Perform_np -> Prefetch(PerformCall(m), 43)
      [] x = 47 ->
            MoveToWritePhase([m EXCEPT !.program_counter_ = Add32(m.program_counter_, 2)])
      [] x = Perform_np_n -> Prefetch(PerformCall(m), 49)
      [] x = 53 ->
            Bus([m EXCEPT !.program_counter_ = Add32(m.program_counter_, 2),
                          !.idle_length = 1 * 4], 55)
      [] x = 55 -> MoveToWritePhase(m)
      [] OTHER -> Abort(m)

\* What the bus handler does to the processor during a select cycle: the
\* word read goes where the microcycle's value pointer points. issued counts
\* the transactions it has been given, wait cycles left out.
Deliver(s, m, w) ==
    LET n == [m EXCEPT !.issued = IF s = WaitResume THEN @ ELSE @ + 1]
    IN CASE s = 9 -> [n EXCEPT !.registers_ = [m.registers_ EXCEPT ![15] = WithHigh(m.registers_[15], w)]]
         [] s = 15 -> [n EXCEPT !.registers_ = [m.registers_ EXCEPT ![15] = WithLow(m.registers_[15], w)]]
         [] s = 21 -> [n EXCEPT !.program_counter_ = WithHigh(m.program_counter_, w)]
         [] s = 27 -> [n EXCEPT !.program_counter_ = WithLow(m.program_counter_, w)]
         [] s \in ProgramSelectSites -> [n EXCEPT !.prefetch_ = WithLow(m.prefetch_, w)]
         [] OTHER -> n


\* ------------------------------------------------------------ external state

\* A variant of get_state() that does not first store A7 into its bank.
get_state_NoSync(m) ==
    [m |-> m,
     state |-> [data |-> [c \in 0..7 |-> m.registers_[c]],
                address |-> [c \in 0..6 |-> m.registers_[c + 8]],
                program_counter |-> m.program_counter_,
                status |-> StatusWord(m.status_),
                user_stack_pointer |-> m.stack_pointers_[0],
                supervisor_stack_pointer |-> m.stack_pointers_[1]]]

\* Processor::get_state(): the snapshot, and the processor it leaves behind.
get_state(m) ==
    LET m1 == did_update_status(m)
    IN [m |-> m1,
        state |-> [data |-> [c \in 0..7 |-> m1.registers_[c]],
                   address |-> [c \in 0..6 |-> m1.registers_[c + 8]],
                   program_counter |-> m1.program_counter_,
                   status |-> StatusWord(m1.status_),
                   user_stack_pointer |-> m1.stack_pointers_[0],
                   supervisor_stack_pointer |-> m1.stack_pointers_[1]]]

\* A variant of set_state() that also restarts the processor at Reset.
set_state_Restart(m, state) ==
    LET sp == [i \in {0, 1} |-> IF i = 0 THEN state.user_stack_pointer
                                 ELSE state.supervisor_stack_pointer]
        m1 == [m EXCEPT
                !.registers_ = [c \in 0..15 |->
                    IF c < 8 THEN state.data[c]
                    ELSE IF c < 15 THEN state.address[c - 8]
                    ELSE sp[m.is_supervisor_]],
                !.program_counter_ = state.program_counter,
                !.status_ = set_status(state.status),
                !.stack_pointers_ = sp,
                !.state_ = Reset]
    IN did_update_status(m1)

\* A variant of set_state() that copies the stack pointer of the other bank.
set_state_OtherBank(m, state) ==
    LET sp == [i \in {0, 1} |-> IF i = 0 THEN state.user_stack_pointer
                                 ELSE state.supervisor_stack_pointer]
        m1 == [m EXCEPT
                !.registers_ = [c \in 0..15 |->
                    IF c < 8 THEN state.data[c]
                    ELSE IF c < 15 THEN state.address[c - 8]
                    ELSE sp[1 - m.is_supervisor_]],
                !.program_counter_ = state.program_counter,
                !.status_ = set_status(state.status),
                !.stack_pointers_ = sp]
    IN did_update_status(m1)

\* Processor::set_state().
set_state(m, state) ==
    LET sp == [i \in {0, 1} |-> IF i = 0 THEN state.user_stack_pointer
                                 ELSE state.supervisor_stack_pointer]
        m1 == [m EXCEPT
                !.registers_ = [c \in 0..15 |->
                    IF c < 8 THEN state.data[c]
                    ELSE IF c < 15 THEN state.address[c - 8]
                    ELSE sp[m.is_supervisor_]],
                !.program_counter_ = state.program_counter,
                !.status_ = set_status(state.status),
                !.stack_pointers_ = sp]
    IN did_update_status(m1)

\* The snapshots the host hands to set_state.
Snapshot(status, pc, usp, ssp, seed) ==
    [data |-> [c \in 0..7 |-> <<seed, seed + c>>],
     address |-> [c \in 0..6 |-> <<seed, seed + 16 + c>>],
     program_counter |-> pc, status |-> status,
     user_stack_pointer |-> usp, supervisor_stack_pointer |-> ssp]

Snapshots ==
    { Snapshot(24351, <<0, 4096>>, <<1, 8192>>, <<2, 12288>>, 37),
      Snapshot(42783, <<120, 39612>>, <<3, 8194>>, <<4, 12290>>, 80) }

\* ------------------------------------------------------------ executor

\* The value of x handed to K, evaluated once.
Let(x, K(_)) == CHOOSE out \in {K(r) : r \in {x}} : TRUE

\* 32-bit addition of two SlicedInt32s.
Add32Long(a, b) ==
    <<(a[1] + b[1] + ((a[2] + b[2]) \div Word)) % Word, (a[2] + b[2]) % Word>>

\* int16_t(w) and int8_t(b) as integers, and uint32_t(int16_t(w)).
SignExtend16(w) == IF w >= 32768 THEN w - Word ELSE w
SignExtend8(b) == IF b >= 128 THEN b - 256 ELSE b
Long16(w) == <<IF w >= 32768 THEN 65535 ELSE 0, w>>

ByteSize == 1
WordSize == 2
LongWordSize == 4

\* The word that holds a byte address.
Aligned(a) == <<a[1], a[2] - (a[2] % 2)>>

\* BusHandler::read<IntT>(address): memory is the image overlaid with the
\* words written so far; every access is noted in the record of the iteration.
BusRead16(e, a) ==
    IF Aligned(a) \in DOMAIN e.ram THEN e.ram[Aligned(a)] ELSE ReadWord(image, a)

BusValue(e, size, a) ==
    CASE size = ByteSize ->
            IF a[2] % 2 = 0 THEN BusRead16(e, a) \div 256 ELSE BusRead16(e, a) % 256
      [] size = WordSize -> BusRead16(e, a)
      [] OTHER -> <<BusRead16(e, a), BusRead16(e, Add32(a, 2))>>

Noted(e, op, size, a, v) ==
    [e EXCEPT !.iter.bus =
        Append(@, [op |-> op, size |-> size, address |-> a, value |-> v])]

BusRead(e, size, a) ==
    [e |-> Noted(e, "read", size, a, BusValue(e, size, a)), v |-> BusValue(e, size, a)]

\* BusHandler::write<IntT>(address, value).
BusWrite(e, size, a, v) ==
    LET old == BusRead16(e, a)
        ram == CASE size = ByteSize ->
                        (Aligned(a) :> (IF a[2] % 2 = 0 THEN (v * 256) + (old % 256)
                                        ELSE (old \div 256) * 256 + v)) @@ e.ram
                 [] size = WordSize -> (Aligned(a) :> v) @@ e.ram
                 [] OTHER -> (Aligned(a) :> v[1]) @@ (Aligned(Add32(a, 2)) :> v[2]) @@ e.ram
    IN Noted([e EXCEPT !.ram = ram], "write", size, a, v)

\* Executor::read(size, address, value).
Executor_read(e, size, address, value) ==
    LET r == BusRead(e, size, address)
    IN [e |-> r.e,
        v |-> CASE size = ByteSize -> WithByte(value, r.v)
                [] size = WordSize -> WithLow(value, r.v)
                [] OTHER -> r.v]

\* Executor::write(size, address, value).
Executor_write(e, size, address, value) ==
    BusWrite(e, size, address,
             CASE size = ByteSize -> Byte(value)
               [] size = WordSize -> Low(value)
               [] OTHER -> value)

\* Executor::read_pc<uint16_t>() and read_pc<uint32_t>().
read_pc16(e) ==
    LET r == BusRead(e, WordSize, e.program_counter_)
    IN [e |-> [r.e EXCEPT !.program_counter_ = Add32(@, 2),
                          !.iter.pc_reads = @ + 1],
        v |-> r.v]

read_pc32(e) ==
    LET r == BusRead(e, LongWordSize, e.program_counter_)
    IN [e |-> [r.e EXCEPT !.program_counter_ = Add32(@, 4),
                          !.iter.pc_reads = @ + 1],
        v |-> r.v]

\* Executor::index_8bitdisplacement().
index_8bitdisplacement(e) ==
    LET r == read_pc16(e)
        extension == r.v
        offset == SignExtend8(extension % 256)
        register_index == (extension \div 4096) % 8
        displacement == IF extension >= 32768 THEN e.address_[register_index]
                        ELSE e.data_[register_index]
        sized_displacement == IF (extension \div 2048) % 2 = 1 THEN displacement
                              ELSE Long16(Low(displacement))
    IN [e |-> r.e, v |-> Add32(sized_displacement, offset)]

\* A variant of byte_increments that has 1 for A7 as well.
byte_increments_AllOne(reg) == 1

\* byte_increments[reg].
byte_increments(reg) == IF reg = 7 THEN 2 ELSE 1

\* The adjustment of an address register for an operand of the given size.
Increment(size, reg) == IF size = ByteSize THEN byte_increments(reg) ELSE size

\* What an EffectiveAddress left uninitialised may hold, and the order in
\* which the two operands of a PC-relative sum are evaluated.
Junk == [value : {<<0, 0>>, <<43690, 21845>>}, requires_fetch : BOOLEAN, pc_first : BOOLEAN]

\* Executor::calculate_effective_address(instruction, opcode, index).
calculate_effective_address(e, instruction, index, junk) ==
    LET mode == instruction.mode[index + 1]
        reg == instruction.reg[index + 1]
        size == instruction.size
        e0 == [e EXCEPT !.iter.ea_calls = @ + 1]
        Result(x, value, fetch) ==
            [e |-> x, ea |-> [value |-> value, requires_fetch |-> fetch], ok |-> TRUE]
    IN CASE mode = NoMode -> Result(e0, junk.value, junk.requires_fetch)
         [] mode = DataRegisterDirect -> Result(e0, e0.data_[reg], FALSE)
         [] mode = AddressRegisterDirect -> Result(e0, e0.address_[reg], FALSE)
         [] mode = ImmediateData ->
                IF size = LongWordSize
                THEN Result(read_pc32(e0).e, read_pc32(e0).v, FALSE)
                ELSE Result(read_pc16(e0).e,
                            <<0, IF size = ByteSize THEN read_pc16(e0).v % 256
                                 ELSE read_pc16(e0).v>>, FALSE)
         [] mode = AbsoluteShort -> Result(read_pc16(e0).e, Long16(read_pc16(e0).v), TRUE)
         [] mode = AbsoluteLong -> Result(read_pc32(e0).e, read_pc32(e0).v, TRUE)
         [] mode = AddressRegisterIndirect -> Result(e0, e0.address_[reg], TRUE)
         [] mode = AddressRegisterIndirectWithPostincrement ->
                Result([e0 EXCEPT !.address_[reg] = Add32(@, Increment(size, reg))],
                       e0.address_[reg], TRUE)
         [] mode = AddressRegisterIndirectWithPredecrement ->
                Result([e0 EXCEPT !.address_[reg] = Add32(@, -Increment(size, reg))],
                       Add32(e0.address_[reg], -Increment(size, reg)), TRUE)
         [] mode = AddressRegisterIndirectWithDisplacement ->
                Result(read_pc16(e0).e,
                       Add32(e0.address_[reg], SignExtend16(read_pc16(e0).v)), TRUE)
         [] mode = AddressRegisterIndirectWithIndex8bitDisplacement ->
                Result(index_8bitdisplacement(e0).e,
                       Add32Long(e0.address_[reg], index_8bitdisplacement(e0).v), TRUE)
         [] mode = ProgramCounterIndirectWithDisplacement ->
                Result(read_pc16(e0).e,
                       Add32(IF junk.pc_first THEN e0.program_counter_
                             ELSE read_pc16(e0).e.program_counter_,
                             SignExtend16(read_pc16(e0).v)), TRUE)
         [] mode = ProgramCounterIndirectWithIndex8bitDisplacement ->
                Result(index_8bitdisplacement(e0).e,
                       Add32Long(IF junk.pc_first THEN e0.program_counter_
                                 ELSE index_8bitdisplacement(e0).e.program_counter_,
                                 index_8bitdisplacement(e0).v), TRUE)
         [] OTHER -> [e |-> e0, ea |-> [value |-> Zero32, requires_fetch |-> FALSE],
                      ok |-> FALSE]

\* Executor::did_update_status().
Executor_did_update_status(e) ==
    LET sp == [e.stack_pointers_ EXCEPT ![e.active_stack_pointer_] = e.address_[7]]
    IN [e EXCEPT !.stack_pointers_ = sp,
                 !.address_ = [e.address_ EXCEPT ![7] = sp[e.status_.is_supervisor]],
                 !.active_stack_pointer_ = e.status_.is_supervisor]

\* The stack pointer of each bank as get_state() reports it: A7 for the bank
\* the supervisor bit selects, the stored copy for the other.
BankedStackPointer(e, bank) ==
    IF e.status_.is_supervisor = bank THEN e.address_[7] ELSE e.stack_pointers_[bank]

\* What the record of the iteration keeps of the state an exception is raised in.
RaisedIn(e, index) ==
    [vector |-> index, status |-> StatusWord(e.status_),
     user_stack_pointer |-> BankedStackPointer(e, 0),
     supervisor_stack_pointer |-> BankedStackPointer(e, 1),
     instruction_address |-> e.instruction_address_,
     performed |-> e.iter.performed,
     at |-> Len(e.iter.bus)]

\* Executor::raise_exception(index).
Executor_raise_exception(e, index) ==
    Let(Executor_did_update_status(
            [e EXCEPT !.status_ = [e.status_ EXCEPT !.is_supervisor = 1],
                      !.iter.vectors = Append(@, index),
                      !.iter.raised = Append(@, RaisedIn(e, index))]), LAMBDA e1 :
    Let(BusWrite(BusWrite(e1, LongWordSize, Add32(e1.address_[7], -4),
                          e1.instruction_address_),
                 WordSize, Add32(e1.address_[7], -6), StatusWord(e.status_)), LAMBDA e3 :
    Let(BusRead([e3 EXCEPT !.address_ = [e3.address_ EXCEPT ![7] = Add32(e3.address_[7], -6)]],
                LongWordSize, <<0, index * 4>>), LAMBDA r :
        [r.e EXCEPT !.program_counter_ = r.v])))

\* The status word reset() installs: 0b0010'0011'1000'0000.
ResetStatusWord == 9088

\* Executor::reset().
Executor_reset(e) ==
    Let(Executor_did_update_status([e EXCEPT !.status_ = set_status(ResetStatusWord)]),
        LAMBDA e1 :
    Let(BusRead(e1, LongWordSize, <<0, 0>>), LAMBDA sp :
    Let(BusRead([sp.e EXCEPT !.data_ = [e1.data_ EXCEPT ![7] = sp.v]],
                LongWordSize, <<0, 4>>), LAMBDA pc :
        [pc.e EXCEPT !.program_counter_ = pc.v])))

\* Executor::get_state(): the snapshot, and the executor it leaves behind.
Executor_get_state(e) ==
    LET sp == [e.stack_pointers_ EXCEPT ![e.status_.is_supervisor] = e.address_[7]]
    IN [e |-> [e EXCEPT !.stack_pointers_ = sp],
        state |-> [data |-> e.data_,
                   address |-> [c \in 0..6 |-> e.address_[c]],
                   program_counter |-> e.program_counter_,
                   status |-> StatusWord(e.status_),
                   user_stack_pointer |-> sp[0],
                   supervisor_stack_pointer |-> sp[1]]]

\* Executor::set_state().
Executor_set_state(e, state) ==
    LET sp == [i \in {0, 1} |-> IF i = 0 THEN state.user_stack_pointer
                                 ELSE state.supervisor_stack_pointer]
        status == set_status(state.status)
    IN [e EXCEPT !.data_ = state.data,
                 !.address_ = [c \in 0..7 |-> IF c < 7 THEN state.address[c]
                                              ELSE sp[status.is_supervisor]],
                 !.status_ = status,
                 !.program_counter_ = state.program_counter,
                 !.stack_pointers_ = sp]

\* Sequence<model>(operation): the steps of each operation.
Sequence(operation) ==
    CASE operation = "NBCD" -> <<"FetchOp1", "Perform", "StoreOp1">>
      [] operation = "MOVEw" -> <<"FetchOp1", "Perform", "StoreOp2">>
      [] operation = "MOVEtoSR" -> <<"FetchOp1", "Perform">>
      [] operation \in {"DIVU", "ORb"} -> <<"FetchOp1", "FetchOp2", "Perform", "StoreOp2">>
      [] OTHER -> <<"Perform">>

\* int(step) & 1.
StepIndex(step) == IF step \in {"FetchOp2", "StoreOp2"} THEN 1 ELSE 0

\* One step of the sequence, on the executor t.e, the effective addresses
\* t.ea and the operands t.operand.
Executor_step(t, instruction, step) ==
    LET index == StepIndex(step)
        ea == t.ea[index + 1]
    IN CASE step \in {"FetchOp1", "FetchOp2"} ->
                IF ~ea.requires_fetch THEN t
                ELSE LET r == Executor_read(t.e, instruction.size, ea.value,
                                            t.operand[index + 1])
                     IN [t EXCEPT !.e = r.e, !.operand[index + 1] = r.v]
         [] step = "Perform" ->
                LET r == perform(instruction, t.operand[1], t.operand[2], t.e.status_)
                    e1 == [t.e EXCEPT !.status_ = r.status, !.iter.performed = @ + 1]
                IN [t EXCEPT !.e = CASE r.status_updated -> Executor_did_update_status(e1)
                                     [] r.exception # 0 ->
                                            Executor_raise_exception(e1, r.exception)
                                     [] OTHER -> e1,
                             !.operand = <<r.op0, r.op1>>]
         [] OTHER ->
                IF ~ea.requires_fetch
                THEN CASE instruction.mode[index + 1] = DataRegisterDirect ->
                            [t EXCEPT !.e.data_[instruction.reg[index + 1]] =
                                            t.operand[index + 1],
                                      !.e.iter.stored = Append(@, step)]
                       [] instruction.mode[index + 1] = AddressRegisterDirect ->
                            [t EXCEPT !.e.address_[instruction.reg[index + 1]] =
                                            t.operand[index + 1],
                                      !.e.iter.stored = Append(@, step)]
                       [] OTHER -> [t EXCEPT !.e.failed = TRUE]
                ELSE [t EXCEPT !.e = Executor_write(
                                        [t.e EXCEPT !.iter.stored = Append(@, step)],
                                        instruction.size, ea.value, t.operand[index + 1])]

\* while(!sequence.empty()): the steps in order, up to a failed assertion.
RECURSIVE RunSequence(_, _, _)
RunSequence(t, instruction, steps) ==
    IF steps = <<>> \/ t.e.failed THEN t.e
    ELSE Let(Executor_step(t, instruction, Head(steps)),
             LAMBDA u : RunSequence(u, instruction, Tail(steps)))

\* A variant of the privilege test that lets every instruction through.
PrivilegeViolation_Never(e, instruction) == FALSE

\* The test that turns a supervisor-only instruction away.
PrivilegeViolation(e, instruction) ==
    e.status_.is_supervisor = 0 /\ instruction.requires_supervisor

\* A variant that sends every undefined opcode to the illegal-instruction vector.
UndefinedVector_Generic(opcode) == 4

\* The vector of an undefined opcode.
UndefinedVector(opcode) ==
    CASE opcode \div 4096 = 10 -> 10
      [] opcode \div 4096 = 15 -> 11
      [] OTHER -> 4

NoIteration ==
    [opcode |-> 0, instruction |-> UndefinedInstr, user |-> FALSE,
     vectors |-> <<>>, raised |-> <<>>, stored |-> <<>>,
     performed |-> 0, ea_calls |-> 0, pc_reads |-> 0, bus |-> <<>>]

\* The body of the loop of run_for_instructions, from the privilege check on.
Execute(e, opcode, instruction, junk0, junk1) ==
    IF PrivilegeViolation(e, instruction) THEN Executor_raise_exception(e, 8)
    ELSE IF instruction.operation = "Undefined"
    THEN Executor_raise_exception(e, UndefinedVector(opcode))
    ELSE Let(calculate_effective_address(e, instruction, 0, junk0), LAMBDA ea0 :
         IF ~ea0.ok THEN [ea0.e EXCEPT !.failed = TRUE]
         ELSE Let(calculate_effective_address(ea0.e, instruction, 1, junk1), LAMBDA ea1 :
              IF ~ea1.ok THEN [ea1.e EXCEPT !.failed = TRUE]
              ELSE RunSequence([e |-> ea1.e, ea |-> <<ea0.ea, ea1.ea>>,
                                operand |-> <<ea0.ea.value, ea1.ea.value>>],
                               instruction, Sequence(instruction.operation))))

\* The body of the loop of run_for_instructions: the opcode is read and
\* decoded, and the instruction is carried out.
Iteration(e, junk0, junk1) ==
    LET start == [e EXCEPT !.instruction_address_ = e.program_counter_,
                           !.iter = [NoIteration EXCEPT !.user = e.status_.is_supervisor = 0]]
    IN Let(read_pc16(start), LAMBDA fetch :
       Let(decode(fetch.v), LAMBDA instruction :
           Execute([fetch.e EXCEPT !.iter.opcode = fetch.v,
                                   !.iter.instruction = instruction],
                   fetch.v, instruction, junk0, junk1)))

\* The members of an Executor before its constructor has run.
Garbage == {0, 1}

Uninitialised(g) ==
    [status_ |-> set_status(0),
     program_counter_ |-> <<g, 6>>,
     data_ |-> [c \in 0..7 |-> <<g, 256 + c>>],
     address_ |-> [c \in 0..7 |-> <<0, 512 + 32 * c + g>>],
     stack_pointers_ |-> [i \in {0, 1} |-> <<0, 1024 + 64 * i + 2 * g>>],
     instruction_address_ |-> <<g, 8>>,
     active_stack_pointer_ |-> 0,
     ram |-> [a \in {} |-> 0],
     failed |-> FALSE, running |-> FALSE, count |-> 0,
     iterations |-> 0, sets |-> 0, iter |-> NoIteration]

\* ------------------------------------------------------------ processor

LineStates ==
    { <<FALSE, FALSE, FALSE>>, <<TRUE, FALSE, FALSE>>,
      <<FALSE, TRUE, FALSE>>, <<FALSE, FALSE, TRUE>> }

WithLines(m, ln) == [m EXCEPT !.dtack_ = ln[1], !.vpa_ = ln[2], !.berr_ = ln[3]]

Durations == {-1, 0, 1, MaxDuration}

\* The members as construction leaves them. Those without an initialiser
\* hold whatever was there: sup selects one of two such contents. performs,
\* shifts, issued and performed_at are history: the calls of perform, the
\* shifts of the prefetch queue and the transactions so far, and the
\* processor as the latest call of perform found it.
InitialProcessor(sup) ==
    [state_ |-> Reset, time_remaining_ |-> 0, is_supervisor_ |-> 1,
     instruction_ |-> UndefinedInstr, opcode_ |-> 0, operand_flags_ |-> 0,
     instruction_address_ |-> Zero32,
     status_ |-> [ccr |-> 0, interrupt_level |-> 0, is_supervisor |-> sup, trace_flag |-> 0],
     program_counter_ |-> <<sup, 2 * sup>>,
     registers_ |-> [c \in 0..15 |-> <<c + 3 * sup, 37 + c>>],
     stack_pointers_ |-> [i \in {0, 1} |-> <<sup, 64 * sup + 2 * i>>],
     dtack_ |-> FALSE, vpa_ |-> FALSE, berr_ |-> FALSE,
     prefetch_ |-> <<7 * sup, 9 * sup>>,
     operand_ |-> [i \in {0, 1} |-> <<sup, i>>],
     post_dtack_state_ |-> 0, perform_state_ |-> 0, next_operand_ |-> 0,
     temporary_address_ |-> Zero32, idle_length |-> 0,
     awaiting_dtack |-> NoMicrocycle,
     performs |-> 0, shifts |-> 0, issued |-> 0,
     performed_at |-> [state |-> 0, issued |-> 0, pc |-> Zero32, prefetch |-> Zero32]]

NoCall == [before |-> 0, duration |-> 0, spent |-> 0]

NoStall == [site |-> 0, waited |-> FALSE, returns |-> 0, selected |-> FALSE]

ProcInit ==
    /\ config \in [permit_overrun : BOOLEAN, dtack_is_implicit : BOOLEAN]
    /\ image \in Images
    /\ cpu \in {InitialProcessor(sup) : sup \in {0, 1}}
    /\ phase = "idle"
    /\ site = 0
    /\ tx = Resolve(NoMicrocycle, InitialProcessor(0))
    /\ delay = 0
    /\ log = <<>>
    /\ call = NoCall
    /\ stall = NoStall
    /\ ninstr = 0
    /\ nset = 0
    /\ machine = "Processor"
    /\ exec = Uninitialised(0)

Stalled(m) == m.state_ \in {WaitForDTACK, WaitResume}

Apply(r) ==
    /\ cpu' = r.m
    /\ phase' = r.next
    /\ site' = r.site
    /\ stall' = CASE stall.selected -> NoStall
                  [] r.next = "idle" /\ Stalled(r.m) /\ stall.returns < 2 ->
                        [stall EXCEPT !.returns = @ + 1]
                  [] OTHER -> stall

\* A variant of run_for(duration) that enters the switch whatever the budget.
RunFor_NoDeficitTest(duration) ==
    /\ phase = "idle"
    /\ duration < 0 => cpu.time_remaining_ + duration >= -TimeFloor
    /\ cpu' = [cpu EXCEPT !.time_remaining_ = cpu.time_remaining_ + duration]
    /\ phase' = "dispatch"
    /\ call' = [before |-> cpu.time_remaining_, duration |-> duration, spent |-> 0]
    /\ UNCHANGED <<machine, exec, config, image, site, tx, delay, log, stall, ninstr, nset>>

\* run_for(duration), up to the switch.
RunFor(duration) ==
    /\ phase = "idle"
    /\ duration < 0 => cpu.time_remaining_ + duration >= -TimeFloor
    /\ LET t == cpu.time_remaining_ + duration
       IN /\ cpu' = [cpu EXCEPT !.time_remaining_ = t]
          /\ phase' = IF t <= 0 THEN "idle" ELSE "dispatch"
          /\ call' = IF t <= 0 THEN NoCall
                     ELSE [before |-> cpu.time_remaining_, duration |-> duration, spent |-> 0]
    /\ UNCHANGED <<machine, exec, config, image, site, tx, delay, log, stall, ninstr, nset>>

\* switch(state_): one pass of the dispatch loop, up to the next transaction.
Dispatch ==
    /\ phase = "dispatch"
    /\ cpu.state_ = Decode => ninstr < MaxInstructions
    /\ Apply(From(cpu.state_, cpu))
    /\ call' = IF phase' = "idle" THEN NoCall ELSE call
    /\ ninstr' = IF cpu.state_ = Decode THEN ninstr + 1 ELSE ninstr
    /\ UNCHANGED <<machine, exec, config, image, tx, delay, log, nset>>

\* bus_handler_.perform_bus_operation(x, is_supervisor_): the handler sees the
\* microcycle, fills in a word read, may move the DTACK, VPA and BERR inputs
\* and returns an extra delay.
BusCycle(extra, ln) ==
    /\ phase = "bus"
    /\ site = WaitResume => cpu.time_remaining_ > -TimeFloor
    /\ LET mc == Resolve(SiteMicrocycle(site, cpu), cpu)
       IN /\ tx' = mc
          /\ cpu' = Deliver(site, WithLines(cpu, ln), ReadWord(image, mc.address))
          /\ log' = IF site = WaitResume THEN log ELSE Append(log, mc)
    /\ delay' = extra
    /\ phase' = "spend"
    /\ stall' = CASE site \in AnnounceSites ->
                        [site |-> site, waited |-> FALSE, returns |-> 0, selected |-> FALSE]
                  [] site = WaitResume -> [stall EXCEPT !.waited = TRUE]
                  [] site \in SelectSites -> [stall EXCEPT !.selected = TRUE]
                  [] OTHER -> stall
    /\ UNCHANGED <<machine, exec, config, image, site, call, ninstr, nset>>

\* Spend(x.length + delay), and the code that follows it.
SpendStep ==
    /\ phase = "spend"
    /\ LET t == Spend(cpu.time_remaining_, tx.length, delay)
           m == [cpu EXCEPT !.time_remaining_ = t]
       IN /\ IF SpendExits(t)
             THEN Apply(Suspend(m, site))
             ELSE Apply(From(site, m))
          /\ call' = IF phase' = "idle" THEN NoCall
                     ELSE [call EXCEPT !.spent = @ + tx.length + delay]
    /\ delay' = 0
    /\ UNCHANGED <<machine, exec, config, image, tx, log, ninstr, nset>>

\* The host moves the DTACK, VPA and BERR inputs between calls.
SetLines(ln) ==
    /\ phase = "idle"
    /\ cpu' = WithLines(cpu, ln)
    /\ UNCHANGED <<machine, exec, config, image, phase, site, tx, delay, log, call, stall, ninstr, nset>>

GetState ==
    /\ phase = "idle"
    /\ cpu' = get_state(cpu).m
    /\ UNCHANGED <<machine, exec, config, image, phase, site, tx, delay, log, call, stall, ninstr, nset>>

SetState(state) ==
    /\ phase = "idle"
    /\ nset < MaxSetState
    /\ cpu' = set_state(cpu, state)
    /\ nset' = nset + 1
    /\ UNCHANGED <<machine, exec, config, image, phase, site, tx, delay, log, call, stall, ninstr>>

ProcNext ==
    \/ \E d \in Durations : RunFor(d)
    \/ Dispatch
    \/ \E extra \in 0..MaxDelay, ln \in LineStates : BusCycle(extra, ln)
    \/ SpendStep
    \/ \E ln \in LineStates : SetLines(ln)

\* The processor driven by run_for and the three input lines.
Spec == ProcInit /\ [][ProcNext]_vars

\* The same with the host taking and installing snapshots between calls.
StateImages == {img \in Images : img.code[1] = 18432 /\ img.vec[3] = 120}

StateInit ==
    /\ ProcInit
    /\ config.dtack_is_implicit
    /\ image \in StateImages
    /\ cpu = InitialProcessor(0)

StateNext ==
    \/ ProcNext
    \/ GetState
    \/ \E st \in Snapshots : SetState(st)

SpecState == StateInit /\ [][StateNext]_vars


\* ------------------------------------------------------------ executor actions

\* Executor::Executor(BusHandler &).
Executor(g) == [Executor_reset(Uninitialised(g)) EXCEPT !.iter = NoIteration]

\* The memory images the Executor runs:
\*   MOVE #,SR / 0 / MOVE (A0)+,SR;  MOVE -(A0),SR / line A / MOVE #,SR;
\*   NBCD (A0)+ / RESET / NBCD -(A0);  line F / RESET / MOVE A0,SR (undefined);
\*   DIVU #0,D0 / RESET;  DIVU #3,D0 / NOP;
\*   NBCD (A7)+ / MOVE.w (A0)+,(A0)+ / NBCD -(A7).
ExecImages ==
    { [vec |-> <<18, 13398, 0, 4096>>, code |-> <<18172, 0, 18136>>],
      [vec |-> <<18, 13398, 120, 39612>>, code |-> <<18144, 40960, 18172>>],
      [vec |-> <<0, 2048, 0, 4096>>, code |-> <<18456, 20080, 18464>>],
      [vec |-> <<0, 2048, 0, 4098>>, code |-> <<61440, 20080, 18120>>],
      [vec |-> <<18, 13398, 0, 4098>>, code |-> <<33020, 0, 20080>>],
      [vec |-> <<0, 2048, 0, 4098>>, code |-> <<33020, 3, 20081>>],
      [vec |-> <<0, 2048, 0, 4098>>, code |-> <<18463, 12504, 18471>>] }

ExecInit ==
    /\ machine = "Executor"
    /\ image \in ExecImages
    /\ exec \in {Executor(g) : g \in Garbage}
    /\ config = [permit_overrun |-> FALSE, dtack_is_implicit |-> TRUE]
    /\ cpu = InitialProcessor(1)
    /\ phase = "idle"
    /\ site = 0
    /\ tx = Resolve(NoMicrocycle, InitialProcessor(0))
    /\ delay = 0
    /\ log = <<>>
    /\ call = NoCall
    /\ stall = NoStall
    /\ ninstr = 0
    /\ nset = 0

\* run_for_instructions(count), up to the loop.
ExecRunFor(n) ==
    /\ ~exec.running
    /\ ~exec.failed
    /\ exec' = [exec EXCEPT !.running = TRUE, !.count = n]
    /\ UNCHANGED <<procVars, machine>>

\* while(count--): the test, and one pass of the loop.
ExecIterate(junk0, junk1) ==
    /\ exec.running
    /\ ~exec.failed
    /\ exec.count # 0 => exec.iterations < MaxIterations
    /\ exec' = IF exec.count = 0 THEN [exec EXCEPT !.running = FALSE]
               ELSE Iteration([exec EXCEPT !.count = @ - 1, !.iterations = @ + 1],
                              junk0, junk1)
    /\ UNCHANGED <<procVars, machine>>

ExecGetState ==
    /\ ~exec.running
    /\ ~exec.failed
    /\ exec' = Executor_get_state(exec).e
    /\ UNCHANGED <<procVars, machine>>

ExecSetState(state) ==
    /\ ~exec.running
    /\ ~exec.failed
    /\ exec.sets < MaxSetState
    /\ exec' = [Executor_set_state(exec, state) EXCEPT !.sets = @ + 1]
    /\ UNCHANGED <<procVars, machine>>

ExecNext ==
    \/ \E n \in -1..MaxCount : ExecRunFor(n)
    \/ \E junk0 \in Junk, junk1 \in Junk : ExecIterate(junk0, junk1)
    \/ ExecGetState
    \/ \E st \in Snapshots : ExecSetState(st)

\* The Executor driven by run_for_instructions, get_state and set_state.
SpecExec == ExecInit /\ [][ExecNext]_vars

\* Either machine, as the host has built it.
BothInit == StateInit \/ ExecInit

BothNext ==
    \/ machine = "Processor" /\ StateNext
    \/ machine = "Executor" /\ ExecNext

SpecBoth == BothInit /\ [][BothNext]_vars

\* run_for from the point r on, as one call that is given no extra delay and
\* sees the lines as they are: the processor, the transactions issued and how
\* the call ends.
RECURSIVE Continue(_, _, _)
Continue(r, lg, n) ==
    CASE r.next \in {"idle", "abort"} -> [m |-> r.m, log |-> lg, next |-> r.next]
      [] r.next = "dispatch" ->
            IF r.m.state_ = Decode /\ n >= MaxInstructions
            THEN [m |-> r.m, log |-> lg, next |-> "horizon"]
            ELSE Let(From(r.m.state_, r.m), LAMBDA q :
                     Continue(q, lg, IF r.m.state_ = Decode THEN n + 1 ELSE n))
      [] OTHER ->
            Let(Resolve(SiteMicrocycle(r.site, r.m), r.m), LAMBDA mc :
            Let(Deliver(r.site, r.m, ReadWord(image, mc.address)), LAMBDA m1 :
            Let([m1 EXCEPT !.time_remaining_ = Spend(@, mc.length, 0)], LAMBDA m2 :
                Continue(IF SpendExits(m2.time_remaining_) THEN Suspend(m2, r.site)
                         ELSE From(r.site, m2),
                         Append(lg, mc), n))))

\* One call run_for(T) on a processor as constructed, T > 0.
SingleCall(sup, ln, T) ==
    Continue(Redispatch([WithLines(InitialProcessor(sup), ln) EXCEPT !.time_remaining_ = T]),
             <<>>, 0)

\* The processor without overrun whose acknowledgement is implicit or always
\* asserted, whose handler adds no delay, and whose host pays in time in
\* pieces of its choice.
SliceDurations == {1, 3, MaxDuration}

SliceInit ==
    /\ config \in {[permit_overrun |-> FALSE, dtack_is_implicit |-> TRUE],
                   [permit_overrun |-> FALSE, dtack_is_implicit |-> FALSE]}
    /\ image \in Images
    /\ cpu \in {WithLines(InitialProcessor(sup), <<~config.dtack_is_implicit, FALSE, FALSE>>) :
                    sup \in {0, 1}}
    /\ phase = "idle"
    /\ site = 0
    /\ tx = Resolve(NoMicrocycle, InitialProcessor(0))
    /\ delay = 0
    /\ log = <<>>
    /\ call = NoCall
    /\ stall = NoStall
    /\ ninstr = 0
    /\ nset = 0
    /\ machine = "Processor"
    /\ exec = Uninitialised(0)

SliceNext ==
    \/ \E d \in SliceDurations : RunFor(d)
    \/ Dispatch
    \/ BusCycle(0, <<cpu.dtack_, cpu.vpa_, cpu.berr_>>)
    \/ SpendStep

SpecSlice == SliceInit /\ [][SliceNext]_vars

\* The processor and its transactions when Reset has run to Decode.
ResetTime == 100

PostReset(sup) ==
    Continue(Redispatch([InitialProcessor(sup) EXCEPT !.time_remaining_ = ResetTime]),
             <<>>, MaxInstructions)

\* FetchOperand as Decode enters it: the instruction decoded, next_operand_
\* zero, and the operand flags and perform state that setup_operation's
\* bindings leave. The flags are drawn from all that operand_flags<> can
\* yield and the perform state from those setup_operation names; the
\* instructions are MOVE.w D1,D0, MOVE.w A1,D0 and NBCD D1.
OperandOpcodes == {12289, 12297, 18433}

PerformStates == {Perform_np, Perform_np_n, MOVEWrite}

Entered(m, opcode, flags, perform_state) ==
    [m EXCEPT !.state_ = FetchOperand,
              !.time_remaining_ = 0,
              !.opcode_ = opcode,
              !.instruction_ = decode(opcode),
              !.instruction_address_ = Add32(m.program_counter_, -4),
              !.operand_flags_ = flags,
              !.perform_state_ = perform_state,
              !.next_operand_ = 0]

\* Images whose first instruction is NBCD D0, NBCD (A0) and MOVE.w A1,D0.
OperandImages ==
    StateImages \cup
    { [vec |-> <<18, 13398, 120, 39612>>, code |-> <<18448, 18433, 12297>>],
      [vec |-> <<18, 13398, 120, 39612>>, code |-> <<12297, 18433, 18448>>] }

\* The half-cycles of Reset.
ResetLength == 80

\* The processor either as run_for(ResetLength) leaves it, about to decode
\* the first instruction of the image, or at FetchOperand as above.
OperandInit ==
    /\ config \in {[permit_overrun |-> b, dtack_is_implicit |-> TRUE] : b \in BOOLEAN}
    /\ image \in OperandImages
    /\ log = PostReset(0).log
    /\ cpu \in {SingleCall(sup, <<FALSE, FALSE, FALSE>>, ResetLength).m : sup \in {0, 1}}
            \cup IF image \notin StateImages THEN {}
                 ELSE UNION {Let(PostReset(sup).m, LAMBDA r :
                        {Entered(r, opcode, flags, perform_state) :
                            opcode \in OperandOpcodes, flags \in 0..15,
                            perform_state \in PerformStates}) : sup \in {0, 1}}
    /\ phase = "idle"
    /\ site = 0
    /\ tx = Resolve(NoMicrocycle, InitialProcessor(0))
    /\ delay = 0
    /\ call = NoCall
    /\ stall = NoStall
    /\ ninstr = IF cpu.state_ = FetchOperand THEN 1 ELSE 0
    /\ nset = 0
    /\ machine = "Processor"
    /\ exec = Uninitialised(0)

SpecOperand == OperandInit /\ [][ProcNext]_vars

\* The processor with explicit DTACK and no overrun, inside whose calls the
\* dispatch loop always takes its next step.
FairInit ==
    /\ ProcInit
    /\ ~config.permit_overrun
    /\ ~config.dtack_is_implicit
    /\ image \in StateImages

InCallStep ==
    \/ Dispatch
    \/ \E extra \in 0..MaxDelay, ln \in LineStates : BusCycle(extra, ln)
    \/ SpendStep

FairSpec == FairInit /\ [][ProcNext]_vars /\ WF_vars(InCallStep)

\* ------------------------------------------------------------ claims

InCall == phase \in {"dispatch", "bus", "spend"}

\* The model decodes no more than MaxInstructions instructions.
AtHorizon == phase = "dispatch" /\ cpu.state_ = Decode /\ ninstr >= MaxInstructions

\* C1: every call of run_for returns to its caller (up to the horizon of
\* the model, and unless an assertion ends the program).
C1_RunForReturns == [](InCall => <>(phase \in {"idle", "abort"} \/ AtHorizon))

\* C2: while DTACK, VPA and BERR are withheld after an announced access, the
\* next pass of the dispatch loop of any call with a positive budget issues
\* the held transaction, of length 2, and changes nothing else.
C2_HeldTransactionRepeats ==
    (phase = "dispatch" /\ Stalled(cpu) /\ ~Lines(cpu)) =>
        LET r == From(cpu.state_, cpu)
        IN /\ r.next = "bus"
           /\ r.site = WaitResume
           /\ r.m = cpu
           /\ SiteMicrocycle(r.site, r.m).length = WaitLength

\* A select cycle matches the announce cycle before it.
Matches(announce, select) ==
    /\ announce.address = select.address
    /\ \/ announce.kind = "announce_data" /\ select.kind = "read_data"
       \/ announce.kind = "announce_program" /\ select.kind = "read_program"

IsAnnounce(mc) == mc.kind \in {"announce_data", "announce_program"}
IsSelect(mc) == mc.kind \in {"read_data", "read_program"}

\* C3: a stall in WaitForDTACK resumes at the continuation recorded in
\* post_dtack_state_, which is the select cycle of the access announced
\* before the stall; every announce is followed by its own select cycle and
\* by nothing else, and every select cycle follows its own announce.
C3_ResumeAtContinuation ==
    /\ (Stalled(cpu) /\ phase # "abort") =>
            /\ stall.site \in AnnounceSites
            /\ ~stall.selected
            /\ cpu.post_dtack_state_ = stall.site + 2
            /\ cpu.awaiting_dtack =
                    [SiteMicrocycle(stall.site, cpu) EXCEPT !.length = WaitLength]
    /\ stall.selected =>
            /\ site = stall.site + 4
            /\ Len(log) >= 2
            /\ log[Len(log)] = tx
    /\ \A i \in 1..Len(log) :
            /\ IsAnnounce(log[i]) => (i = Len(log) \/ Matches(log[i], log[i + 1]))
            /\ IsSelect(log[i]) => (i > 1 /\ Matches(log[i - 1], log[i]))

C3_Witness ==
    /\ stall.selected
    /\ stall.waited
    /\ stall.returns >= 1
    /\ phase = "spend"

\* C4: the budget after a call is the budget before it plus the duration
\* minus the length and the handler's delay of every transaction of the
\* call, and it is only ever reduced after a call of the handler.
C4_TimeConservation ==
    /\ [](InCall => cpu.time_remaining_ = call.before + call.duration - call.spent)
    /\ [][(phase = "spend" /\ phase' = "idle") =>
            cpu'.time_remaining_ =
                call.before + call.duration - (call.spent + tx.length + delay)]_vars
    /\ [][(phase = "dispatch" /\ phase' = "idle") =>
            cpu'.time_remaining_ = call.before + call.duration - call.spent]_vars
    /\ [][(InCall /\ cpu'.time_remaining_ # cpu.time_remaining_) =>
            phase = "spend"]_vars
    /\ [][(phase = "idle" /\ phase' = "idle" /\ cpu'.time_remaining_ # cpu.time_remaining_) =>
            /\ cpu'.time_remaining_ - cpu.time_remaining_ \in Durations
            /\ log' = log]_vars

C4_Witness ==
    /\ phase = "spend"
    /\ call.spent > 0
    /\ delay > 0
    /\ Spend(cpu.time_remaining_, tx.length, delay) <= 0

\* C5: with permit_overrun false no transaction starts on a budget of zero
\* or less, and a deduction that exhausts the budget returns at once with
\* the resumption point right after that transaction.
C5_NoTransactionInDebt ==
    /\ []((~config.permit_overrun /\ phase = "bus") => cpu.time_remaining_ > 0)
    /\ [][(~config.permit_overrun /\ phase = "spend" /\ cpu'.time_remaining_ <= 0) =>
            (phase' = "idle" /\ cpu'.state_ = site)]_vars

C5_Witness ==
    /\ ~config.permit_overrun
    /\ phase = "idle"
    /\ cpu.state_ \in ProgramAnnounceSites
    /\ cpu.time_remaining_ <= 0

\* The Reset sequence has just completed.
ResetDone == cpu.state_ = Decode /\ ninstr = 0 /\ phase \in {"idle", "dispatch"}

ResetSP == ReadLong(image, <<0, 0>>)
ResetPC == ReadLong(image, <<0, 4>>)

\* C6 as claimed: after Reset get_state() reports the longword at 0-3 as the
\* supervisor stack pointer and the longword at 4-7 as the program counter.
C6_ResetRegistersAsClaimed ==
    ResetDone =>
        /\ get_state(cpu).state.supervisor_stack_pointer = ResetSP
        /\ get_state(cpu).state.program_counter = ResetPC

\* C6 as amended: after Reset get_state() reports the longword at 0-3 as the
\* supervisor stack pointer, and as the program counter the longword at 4-7
\* plus 4: the two prefetches have moved it on.
C6_ResetRegisters ==
    ResetDone =>
        /\ get_state(cpu).state.supervisor_stack_pointer = ResetSP
        /\ get_state(cpu).state.program_counter = Add32(ResetPC, 4)

C6_Witness == ResetDone /\ ResetPC = <<65535, 65534>> /\ phase = "idle"

\* C7: after Reset the older slot of the prefetch queue is the word at the
\* reset program counter P and the newer slot is the word at P + 2.
C7_ResetPrefetch ==
    ResetDone =>
        /\ High(cpu.prefetch_) = ReadWord(image, ResetPC)
        /\ Low(cpu.prefetch_) = ReadWord(image, Add32(ResetPC, 2))

C7_Witness ==
    /\ ResetDone
    /\ ReadWord(image, ResetPC) # ReadWord(image, Add32(ResetPC, 2))
    /\ ~config.permit_overrun

Announce(kind, address) ==
    [kind |-> kind, address |-> address, length |-> AnnounceLengthOf(config)]
Select(kind, address) == [kind |-> kind, address |-> address, length |-> DefaultLength]
Idle(n) == [kind |-> "idle", address |-> Zero32, length |-> n * 4]

DataRead(address) ==
    <<Announce("announce_data", address), Select("read_data", address)>>
ProgramRead(address) ==
    <<Announce("announce_program", address), Select("read_program", address)>>

\* The transactions of Reset: data reads at 0, 2, 4 and 6, then program
\* fetches at P and P + 2.
ResetTransactions ==
    <<Idle(7)>> \o DataRead(<<0, 0>>) \o DataRead(<<0, 2>>) \o DataRead(<<0, 4>>)
        \o DataRead(<<0, 6>>) \o ProgramRead(ResetPC) \o <<Idle(1)>>
        \o ProgramRead(Add32(ResetPC, 2))

\* C8: Reset issues its four data reads at 0, 2, 4, 6 in that order, then
\* its two program fetches at P and P + 2, and only then enters Decode,
\* however the time is split across calls.
C8_ResetBusOrder ==
    /\ ninstr = 0 =>
            /\ Len(log) <= Len(ResetTransactions)
            /\ log = SubSeq(ResetTransactions, 1, Len(log))
    /\ (cpu.state_ = Decode \/ ninstr > 0) => Len(log) >= Len(ResetTransactions)

C8_Witness ==
    /\ ResetDone
    /\ log = ResetTransactions
    /\ ~config.permit_overrun
    /\ ~config.dtack_is_implicit

\* A snapshot taken, installed and taken again.
ProcessorRoundTrip(m) ==
    LET s1 == get_state(m)
    IN get_state(set_state(s1.m, s1.state)).state = s1.state

ExecutorRoundTrip(e) ==
    LET s1 == Executor_get_state(e)
    IN Executor_get_state(Executor_set_state(s1.e, s1.state)).state = s1.state

\* C9: in every state of the Processor and of the Executor, s1 = get_state(),
\* set_state(s1), s2 = get_state() gives s2 = s1 in every field, the stack
\* pointer of the inactive bank included.
C9_StateRoundTrip ==
    /\ machine = "Processor" => ProcessorRoundTrip(cpu)
    /\ machine = "Executor" => ExecutorRoundTrip(exec)

C9_Witness ==
    /\ machine = "Processor"
    /\ nset > 0
    /\ cpu.status_.is_supervisor = 0
    /\ cpu.state_ \in SelectSites
    /\ get_state(cpu).state.supervisor_stack_pointer
            # get_state(cpu).state.user_stack_pointer

\* The iteration just made met a supervisor-only instruction in user mode.
PrivilegedInUserMode(e) ==
    e.iterations > 0 /\ e.iter.user /\ e.iter.instruction.requires_supervisor

\* C10: a supervisor-only instruction met in user mode raises vector 8 and is
\* discarded: perform is not called, no effective address is calculated (no
\* address register moves, no extension word is read), and the only bus
\* accesses are the opcode fetch, the two pushes of the exception frame and
\* the read of the vector.
C10_PrivilegeViolation ==
    /\ [](PrivilegedInUserMode(exec) =>
            /\ exec.iter.vectors = <<8>>
            /\ exec.iter.performed = 0
            /\ exec.iter.ea_calls = 0
            /\ exec.iter.pc_reads = 1
            /\ [i \in 1..Len(exec.iter.bus) |-> exec.iter.bus[i].op]
                    = <<"read", "write", "write", "read">>
            /\ exec.iter.bus[4].address = <<0, 32>>)
    /\ [][(exec'.iterations = exec.iterations + 1 /\ PrivilegedInUserMode(exec')) =>
            /\ \A c \in 0..6 : exec'.address_[c] = exec.address_[c]
            /\ exec'.data_ = exec.data_
            /\ exec'.instruction_address_ = exec.program_counter_
            /\ exec'.iter.bus[1].address = exec.program_counter_]_vars

C10_Witness ==
    /\ PrivilegedInUserMode(exec)
    /\ exec.iter.instruction.mode[1] = AddressRegisterIndirectWithPostincrement
    /\ ~exec.running

\* The last iteration of run_for_instructions met an opcode the decoder
\* reports as Undefined.
UndefinedOpcode(e) ==
    /\ e.iterations > 0
    /\ decode(e.iter.opcode).operation = "Undefined"

\* C11: every opcode the decoder reports as Undefined raises exactly one
\* exception and is not performed: vector 10 for an opcode in 0xA000-0xAFFF,
\* vector 11 for one in 0xF000-0xFFFF and vector 4 for every other one.
C11_UndefinedOpcode ==
    UndefinedOpcode(exec) =>
        /\ Len(exec.iter.vectors) = 1
        /\ exec.iter.vectors[1] =
                IF exec.iter.opcode >= 40960 /\ exec.iter.opcode <= 45055 THEN 10
                ELSE IF exec.iter.opcode >= 61440 /\ exec.iter.opcode <= 65535 THEN 11
                ELSE 4
        /\ exec.iter.performed = 0
        /\ exec.iter.stored = <<>>

C11_Witness ==
    /\ UndefinedOpcode(exec)
    /\ exec.iter.opcode = 61440
    /\ exec.iter.vectors = <<11>>
    /\ ~exec.running

\* The opcode at the head of the prefetch queue is one Decode has to turn
\* away: undefined, or supervisor-only while the processor is in user mode.
MustTrap(m) ==
    \/ decode(High(m.prefetch_)).operation = "Undefined"
    \/ m.status_.is_supervisor = 0 /\ decode(High(m.prefetch_)).requires_supervisor

\* C12: Decode never hands an undefined opcode, or a supervisor-only
\* instruction met in user mode, on to FetchOperand and a perform state: it
\* goes on running, in supervisor mode, with the delivery of the exception.
C12_DecodeTurnsAway ==
    [][(phase = "dispatch" /\ cpu.state_ = Decode /\ MustTrap(cpu)) =>
            /\ phase' # "abort"
            /\ cpu'.state_ \notin {FetchOperand, StoreOperand, Perform_np,
                                    Perform_np_n, MOVEWrite}
            /\ cpu'.status_.is_supervisor = 1]_vars

\* An iteration of run_for_instructions has just ended without a failed
\* assertion.
Iterated == exec'.iterations = exec.iterations + 1 /\ ~exec'.failed

BusAccess(op, size, address, value) ==
    [op |-> op, size |-> size, address |-> address, value |-> value]

\* C13: an exception of vector v raised with status word S and supervisor
\* stack pointer SSP writes the start address of the instruction as a
\* longword at SSP-4 and S, captured before the supervisor bit is set, as a
\* word at SSP-6; A7 ends at SSP-6, the supervisor bit is set and the program
\* counter is the longword read at 4*v.
C13_ExceptionFrame ==
    [][(Iterated /\ Len(exec'.iter.raised) = 1) =>
        LET r == exec'.iter.raised[1]
            bus == exec'.iter.bus
        IN /\ Len(bus) >= r.at + 3
           /\ r.status = StatusWord(exec.status_) \/ exec'.iter.performed = 1
           /\ r.instruction_address = exec.program_counter_
           /\ bus[r.at + 1] = BusAccess("write", LongWordSize,
                                        Add32(r.supervisor_stack_pointer, -4),
                                        r.instruction_address)
           /\ bus[r.at + 2] = BusAccess("write", WordSize,
                                        Add32(r.supervisor_stack_pointer, -6), r.status)
           /\ bus[r.at + 3].op = "read"
           /\ bus[r.at + 3].size = LongWordSize
           /\ bus[r.at + 3].address = <<0, 4 * r.vector>>
           /\ exec'.address_[7] = Add32(r.supervisor_stack_pointer, -6)
           /\ exec'.status_.is_supervisor = 1
           /\ exec'.program_counter_ = bus[r.at + 3].value]_vars

\* C14: A7 is the stack pointer of the bank the supervisor bit selects and
\* the other bank keeps its value: an iteration leaves the user stack pointer
\* that get_state reports as it was and moves the supervisor stack pointer
\* only by the 6 bytes of each exception frame, so that an exception taken in
\* user mode after set_state pushes its frame at the supervisor stack pointer
\* set_state was given; set_state installs both banks as given.
C14_StackPointerBanks ==
    [][/\ Iterated =>
            /\ BankedStackPointer(exec', 0) = BankedStackPointer(exec, 0)
            /\ BankedStackPointer(exec', 1) =
                    Add32(BankedStackPointer(exec, 1), -6 * Len(exec'.iter.raised))
       /\ exec'.sets = exec.sets + 1 =>
            \E st \in Snapshots :
                /\ BankedStackPointer(exec', 0) = st.user_stack_pointer
                /\ BankedStackPointer(exec', 1) = st.supervisor_stack_pointer]_vars

\* C15: with BERR asserted, a wait cycle does not end by resuming at
\* post_dtack_state_, and the select cycle of the access that was announced
\* is not handed to the bus handler.
C15_BusErrorAbandons ==
    [][(~config.dtack_is_implicit /\ cpu.berr_) =>
            /\ (phase = "spend" /\ site = WaitResume /\ phase' = "dispatch") =>
                    cpu'.state_ # cpu.post_dtack_state_
            /\ ~(phase' = "bus" /\ site' \in SelectSites)]_vars

\* The iteration raised an exception from within perform.
RaisedInPerform(e) ==
    \E i \in 1..Len(e.iter.raised) : e.iter.raised[i].performed > 0

\* C16: an exception requested while an instruction is performed abandons
\* the rest of the instruction. In the Executor no store step follows and the
\* delivery of the exception is the last thing the iteration does on the bus;
\* in the Processor the perform state does not go on to StoreOperand but
\* into the delivery of the exception, in supervisor mode.
C16_PerformExceptionAbandons ==
    [][/\ (Iterated /\ RaisedInPerform(exec')) =>
            /\ exec'.iter.stored = <<>>
            /\ exec'.iter.raised[Len(exec'.iter.raised)].at + 3 = Len(exec'.iter.bus)
       /\ (phase = "dispatch" /\ cpu.state_ \in {Perform_np, Perform_np_n}
                /\ perform(cpu.instruction_, cpu.operand_[0], cpu.operand_[1],
                           cpu.status_).exception # 0) =>
            /\ cpu'.state_ # StoreOperand
            /\ cpu'.status_.is_supervisor = 1]_vars

FreshExecutor == machine = "Executor" /\ exec.iterations = 0 /\ exec.sets = 0

\* C19: after construction the stack pointer get_state() reports as
\* supervisor_stack_pointer is the longword at address 0, the program counter
\* is the longword at address 4 and the processor is in supervisor mode.
C19_ExecutorReset ==
    FreshExecutor =>
        /\ Executor_get_state(exec).state.supervisor_stack_pointer = ReadLong(image, <<0, 0>>)
        /\ Executor_get_state(exec).state.program_counter = ReadLong(image, <<0, 4>>)
        /\ exec.status_.is_supervisor = 1
        /\ exec.address_[7] = ReadLong(image, <<0, 0>>)

\* C20: run_for_instructions(n) makes one pass of its loop for each of n
\* instructions and then returns; for n < 0 it makes none and returns.
C20_InstructionCount ==
    [][(exec.running /\ ~exec.failed /\ exec' # exec) =>
            IF exec.count > 0
            THEN /\ exec'.iterations = exec.iterations + 1
                 /\ exec'.count = exec.count - 1
                 /\ exec'.running
            ELSE /\ exec'.iterations = exec.iterations
                 /\ ~exec'.running]_vars

\* The half-cycles of the transactions issued so far.
RECURSIVE LengthOf(_)
LengthOf(lg) == IF lg = <<>> THEN 0 ELSE Head(lg).length + LengthOf(Tail(lg))

\* The time paid in so far: what is left of it and what has been spent.
PaidIn == cpu.time_remaining_ + LengthOf(log)

\* C21: without overrun, with acknowledgement implicit or always asserted,
\* the transactions issued and the whole of the processor after a total of T
\* half-cycles are those of the single call run_for(T), however T was split
\* into calls.
C21_TimeSlicing ==
    (phase = "idle" /\ PaidIn > 0) =>
        \E sup \in {0, 1} :
            /\ SingleCall(sup, <<cpu.dtack_, cpu.vpa_, cpu.berr_>>, PaidIn).next = "idle"
            /\ SingleCall(sup, <<cpu.dtack_, cpu.vpa_, cpu.berr_>>, PaidIn).log = log
            /\ SingleCall(sup, <<cpu.dtack_, cpu.vpa_, cpu.berr_>>, PaidIn).m = cpu

C21_Witness ==
    /\ phase = "idle"
    /\ ninstr = 1
    /\ cpu.state_ = 55
    /\ Len(log) > 14
    /\ PaidIn > 3 * MaxDuration

PerformSites == {43, 47, 49, 53, 55}

\* The processor is at, or suspended at, a transaction of a perform state.
InPerformState ==
    \/ phase \in {"bus", "spend"} /\ site \in PerformSites
    \/ phase \in {"idle", "dispatch"} /\ cpu.state_ \in PerformSites

\* The program-word announce cycles so far, the one about to be issued included.
ProgramAnnounces ==
    Cardinality({i \in 1..Len(log) : log[i].kind = "announce_program"})
        + (IF phase = "bus" /\ site \in ProgramAnnounceSites THEN 1 ELSE 0)

\* C22: perform is called once per decoded instruction, at the entry of its
\* perform state and before any transaction of that state; a call that
\* resumes between those transactions neither calls it again nor repeats the
\* shift of the prefetch queue, which happens once per program-word prefetch.
C22_PerformOnce ==
    [][/\ cpu'.performs # cpu.performs =>
            /\ phase = "dispatch"
            /\ cpu.state_ \in {Perform_np, Perform_np_n}
            /\ cpu'.performs = ninstr
            /\ cpu.performs = ninstr - 1
            /\ log' = log
       /\ InPerformState' => cpu'.performs = ninstr'
       /\ (phase' # "abort" /\ cpu'.state_ \in {StoreOperand, Decode}) =>
                cpu'.performs = ninstr'
       /\ cpu'.shifts = ProgramAnnounces']_vars

C22_Witness ==
    /\ ~config.permit_overrun
    /\ phase = "bus"
    /\ site = 53
    /\ call.spent = 0
    /\ cpu.performs = 1
    /\ cpu.shifts = 3

\* C23: whenever Decode runs, after any run_for and set_state calls, the
\* opcode it decodes is the older slot of the prefetch queue, the address it
\* records is the program counter less four, and the two slots hold the
\* memory words at that address and two beyond it.
C23_DecodeAligned ==
    [][(phase = "dispatch" /\ cpu.state_ = Decode /\ ninstr' = ninstr + 1) =>
            /\ cpu'.opcode_ = High(cpu.prefetch_)
            /\ cpu'.instruction_address_ = Add32(cpu.program_counter_, -4)
            /\ High(cpu.prefetch_) = ReadWord(image, cpu'.instruction_address_)
            /\ Low(cpu.prefetch_) = ReadWord(image, Add32(cpu'.instruction_address_, 2))]_vars

\* The transactions of Perform_np_n: a prefetch and an idle.
PerformTransactions == 3

\* C24: with permit_overrun, run_for returns only where MoveToState stands:
\* state_ is a named state, time_remaining_ is not positive and the
\* transactions issued so far are whole sequences, none left half issued.
C24_OverrunCheckpoints ==
    (config.permit_overrun /\ phase = "idle") =>
        /\ cpu.state_ \in {Reset, Decode, StoreOperand}
        /\ cpu.time_remaining_ <= 0
        /\ Len(log) = IF cpu.state_ = Reset THEN 0
                      ELSE Len(ResetTransactions) + PerformTransactions * cpu.performs
        /\ log # <<>> => log[Len(log)].kind \in {"read_program", "idle"}

C24_Witness ==
    /\ config.permit_overrun
    /\ phase = "idle"
    /\ cpu.state_ = StoreOperand
    /\ cpu.time_remaining_ < 0
    /\ Len(log) = Len(ResetTransactions) + PerformTransactions

FetchBit(m, i) == (m.operand_flags_ \div (2 ^ i)) % 2 = 1

RegisterDirect(m, i) ==
    i < 2 /\ m.instruction_.mode[i + 1] \in {DataRegisterDirect, AddressRegisterDirect}

\* The register Dn or An that a register-direct operand names: D0-D7 are
\* registers_[0..7] and A0-A7 are registers_[8..15].
RegisterOf(m, i) ==
    IF m.instruction_.mode[i + 1] = AddressRegisterDirect
    THEN 8 + m.instruction_.reg[i + 1]
    ELSE m.instruction_.reg[i + 1]

\* C26: FetchOperand for a flagged operand in data- or address-register
\* direct mode copies that register into operand_[next_operand_] and
\* advances next_operand_; it issues no transaction, deducts no time and
\* changes no register.
C26_RegisterFetch ==
    [][(/\ phase = "dispatch"
        /\ cpu.state_ = FetchOperand
        /\ FetchBit(cpu, cpu.next_operand_)
        /\ RegisterDirect(cpu, cpu.next_operand_)) =>
            /\ cpu'.operand_ = [cpu.operand_ EXCEPT
                    ![cpu.next_operand_] = cpu.registers_[RegisterOf(cpu, cpu.next_operand_)]]
            /\ cpu'.next_operand_ = cpu.next_operand_ + 1
            /\ cpu'.registers_ = cpu.registers_
            /\ cpu'.time_remaining_ = cpu.time_remaining_
            /\ phase' = "dispatch"
            /\ log' = log
            /\ tx' = tx]_vars

C26_Witness ==
    /\ phase = "dispatch"
    /\ cpu.state_ = FetchOperand
    /\ cpu.next_operand_ = 1
    /\ cpu.operand_flags_ = operand_flags("MOVEw")
    /\ cpu.instruction_.operation = "MOVEw"
    /\ cpu.instruction_.mode[1] = AddressRegisterDirect
    /\ cpu.operand_[0] = cpu.registers_[9]
    /\ cpu.operand_[0] # cpu.registers_[1]

\* Either store bit (mask 0x0c) is set; the operand that bit 3 selects.
StoreBits(m) == (m.operand_flags_ \div 4) % 4 # 0
StoreIndex(m) == IF (m.operand_flags_ \div 8) % 2 = 1 THEN 1 ELSE 0

\* This step runs the code that follows the last transaction of a perform state.
LeavesPerform ==
    \/ phase = "spend" /\ site \in {47, 55} /\ cpu'.state_ \notin {47, 55}
    \/ phase = "dispatch" /\ cpu.state_ \in {47, 55}

\* C27: StoreOperand with a register-direct target writes operand_[k] to
\* the register operand k names, k being 1 if bit 3 of operand_flags_ is set
\* and 0 otherwise; it changes no other register, issues no transaction,
\* deducts no time and goes to Decode. A perform state goes to StoreOperand
\* if a store bit (mask 0x0c) is set and straight to Decode if none is, and
\* StoreOperand is entered in no other way.
C27_RegisterStore ==
    [][/\ (/\ phase = "dispatch"
           /\ cpu.state_ = StoreOperand
           /\ RegisterDirect(cpu, StoreIndex(cpu))) =>
                /\ cpu'.registers_ = [cpu.registers_ EXCEPT
                        ![RegisterOf(cpu, StoreIndex(cpu))] = cpu.operand_[StoreIndex(cpu)]]
                /\ cpu'.state_ = Decode
                /\ cpu'.time_remaining_ = cpu.time_remaining_
                /\ phase' = "dispatch"
                /\ log' = log
                /\ tx' = tx
       /\ LeavesPerform =>
                cpu'.state_ = IF StoreBits(cpu) THEN StoreOperand ELSE Decode
       /\ (cpu'.state_ = StoreOperand /\ cpu.state_ # StoreOperand) =>
                LeavesPerform /\ StoreBits(cpu)]_vars

C27_Witness ==
    /\ phase = "dispatch"
    /\ cpu.state_ = Decode
    /\ cpu.performs = 1
    /\ cpu.instruction_ = decode(18433)
    /\ cpu.operand_flags_ = operand_flags("NBCD")
    /\ cpu.perform_state_ = Perform_np_n
    /\ cpu.registers_[1] = cpu.operand_[0]
    /\ cpu.registers_[1] # InitialProcessor(0).registers_[1]
    /\ cpu.registers_[1] # InitialProcessor(1).registers_[1]

\* A perform state has run to its end and nothing has followed it yet.
LeftPerform ==
    /\ phase \in {"idle", "dispatch"}
    /\ cpu.state_ \in {StoreOperand, Decode}
    /\ cpu.performs > 0
    /\ cpu.performs = ninstr

\* C28: from the call of perform to the StoreOperand or Decode that follows,
\* Perform_np issues one program-word prefetch (the queue shifted, the word
\* at the program counter read into it, the program counter advanced by two)
\* and nothing else, and Perform_np_n that prefetch and then one idle
\* transaction of 4 half-cycles; setup_operation binds NBCD to Perform_np_n
\* when its operand is a data register and to Perform_np otherwise.
C28_PerformShape ==
    [][/\ cpu'.issued = Len(log')
       /\ LeftPerform' =>
            /\ cpu'.performed_at.state \in {Perform_np, Perform_np_n}
            /\ SubSeq(log', cpu'.performed_at.issued + 1, Len(log')) =
                    ProgramRead(cpu'.performed_at.pc)
                        \o (IF cpu'.performed_at.state = Perform_np_n
                            THEN <<[kind |-> "idle", address |-> Zero32, length |-> 4]>>
                            ELSE <<>>)
            /\ cpu'.program_counter_ = Add32(cpu'.performed_at.pc, 2)
            /\ cpu'.prefetch_ = <<Low(cpu'.performed_at.prefetch),
                                  ReadWord(image, cpu'.performed_at.pc)>>
       /\ (/\ phase = "dispatch"
           /\ cpu.state_ = Decode
           /\ ninstr' = ninstr + 1
           /\ cpu'.instruction_.operation = "NBCD") =>
                cpu'.perform_state_ =
                    IF cpu'.instruction_.mode[1] = DataRegisterDirect
                    THEN Perform_np_n ELSE Perform_np]_vars

C28_Witness ==
    /\ LeftPerform
    /\ cpu.state_ = StoreOperand
    /\ cpu.instruction_ = decode(18432)
    /\ cpu.performed_at.state = Perform_np_n
    /\ cpu.performed_at.issued = Len(ResetTransactions)
    /\ Len(log) = Len(ResetTransactions) + PerformTransactions

\* C29: no validly decoded instruction, whatever the modes of its operands,
\* brings the processor to a failed assertion: setup_operation binds it to
\* a perform state the loop handles, FetchOperand and StoreOperand handle
\* its operands' modes, and the 'Unhandled state' default is not reached.
C29_EveryInstructionHandled ==
    ~(/\ phase = "abort"
      /\ ninstr > 0
      /\ cpu.instruction_.operation # "Undefined")

\* This step runs the test that follows the announce cycle at site s: the
\* cycle's time has been spent and run_for goes on, or a later call resumes
\* there.
TestsLines(s) ==
    \/ phase = "spend" /\ site = s /\ ~(phase' = "idle" /\ cpu'.state_ = s)
    \/ phase = "dispatch" /\ cpu.state_ = s

C31_SupervisorIndication ==
    phase = "bus" =>
        /\ cpu.is_supervisor_ = cpu.status_.is_supervisor
        /\ did_update_status(cpu).registers_[15] = cpu.registers_[15]

\* What get_state must leave alone in the Processor and in the Executor.
ProcessorObserved(m) ==
    <<m.registers_, m.is_supervisor_, m.status_, m.program_counter_, m.prefetch_,
      m.state_, m.time_remaining_, get_state(m).state>>

ExecutorObserved(e) ==
    <<e.data_, e.address_, e.status_, e.program_counter_, e.active_stack_pointer_,
      Executor_get_state(e).state>>

\* C32: get_state only observes. In either machine a call of it, in any
\* state in which the host can make it, leaves the active A7, status, the
\* program counter, the resumption point and the snapshot a further call
\* would return as they were.
C32_GetStateObserves ==
    [][/\ (machine = "Processor" /\ phase = "idle" /\ phase' = "idle"
            /\ nset' = nset /\ cpu' = get_state(cpu).m) =>
                ProcessorObserved(cpu') = ProcessorObserved(cpu)
       /\ (machine = "Executor" /\ exec' = Executor_get_state(exec).e) =>
                ExecutorObserved(exec') = ExecutorObserved(exec)]_vars

\* The same of the Executor alone.
ExecutorGetStateObserves ==
    [][(machine = "Executor" /\ exec' = Executor_get_state(exec).e) =>
            ExecutorObserved(exec') = ExecutorObserved(exec)]_vars

\* C33: a run_for call that leaves the budget at zero or below after adding
\* its duration issues no transaction and changes nothing but
\* time_remaining_: state_, the registers, status, the program counter and
\* the prefetch queue are as they were.
C33_DeficitCallIsInert ==
    [][(/\ phase = "idle"
        /\ cpu'.time_remaining_ # cpu.time_remaining_
        /\ cpu'.time_remaining_ <= 0) =>
            /\ phase' = "idle"
            /\ cpu' = [cpu EXCEPT !.time_remaining_ = cpu'.time_remaining_]
            /\ log' = log
            /\ tx' = tx
            /\ site' = site]_vars

C33_Witness ==
    /\ ~config.permit_overrun
    /\ phase = "idle"
    /\ cpu.state_ = ResetResume
    /\ Len(log) = 1
    /\ cpu.time_remaining_ = -2

\* C34: once state_ is no longer State::Reset, no run_for call, set_state
\* call or change of the DTACK, VPA and BERR inputs makes it Reset again,
\* and the idle cycles that begin Reset are not issued a second time.
C34_ResetNotReentered ==
    [][/\ cpu.state_ # Reset => cpu'.state_ # Reset
       /\ (cpu.state_ # Reset /\ phase' = "bus") => site' # ResetResume]_vars

C34_Witness ==
    /\ nset > 0
    /\ ninstr > 0
    /\ phase = "idle"
    /\ cpu.state_ \in PerformSites
    /\ Lines(cpu)

Postincrement(ins, i) == ins.mode[i + 1] = AddressRegisterIndirectWithPostincrement
Predecrement(ins, i) == ins.mode[i + 1] = AddressRegisterIndirectWithPredecrement

\* The adjustment the 68000 makes for an operand: its size, and 2 for a byte
\* through A7.
Adjustment(ins, i) ==
    IF ins.size = 1 THEN (IF ins.reg[i + 1] = 7 THEN 2 ELSE 1) ELSE ins.size

\* The address registers after operand i's side effect, and its address.
SideEffect(regs, ins, i) ==
    CASE Postincrement(ins, i) ->
            [regs EXCEPT ![ins.reg[i + 1]] = Add32(@, Adjustment(ins, i))]
      [] Predecrement(ins, i) ->
            [regs EXCEPT ![ins.reg[i + 1]] = Add32(@, -Adjustment(ins, i))]
      [] OTHER -> regs

OperandAddress(regs, ins, i) ==
    IF Postincrement(ins, i) THEN <<regs[ins.reg[i + 1]]>>
    ELSE IF Predecrement(ins, i) THEN <<Add32(regs[ins.reg[i + 1]], -Adjustment(ins, i))>>
    ELSE <<>>

\* The addresses of the accesses of the iteration that follow the opcode's.
OperandAccesses(e) == [k \in 1..(Len(e.iter.bus) - 1) |-> e.iter.bus[k + 1].address]

\* C35: in the Executor a postincrement operand is addressed by the
\* register's value before the operand's size is added to it, a predecrement
\* operand by its value after the size is subtracted; the size of a byte is
\* 1 for A0-A6 and 2 for A7; and operand 1 is addressed with operand 0's
\* adjustment already made. NBCD reads and writes at its operand's address,
\* MOVE.w reads at operand 0's and writes at operand 1's.
C35_AddressSideEffects ==
    [][(/\ machine = "Executor"
        /\ Iterated
        /\ exec'.iter.vectors = <<>>
        /\ exec'.iter.instruction.operation \in {"NBCD", "MOVEw"}
        /\ \A i \in {0, 1} :
              \/ Postincrement(exec'.iter.instruction, i)
              \/ Predecrement(exec'.iter.instruction, i)
              \/ exec'.iter.instruction.mode[i + 1] = NoMode) =>
            LET ins == exec'.iter.instruction
                after0 == SideEffect(exec.address_, ins, 0)
                first == OperandAddress(exec.address_, ins, 0)
                second == OperandAddress(after0, ins, 1)
            IN /\ exec'.address_ = SideEffect(after0, ins, 1)
               /\ OperandAccesses(exec') =
                    IF ins.operation = "NBCD" THEN first \o first ELSE first \o second]_vars

C35_Witness ==
    /\ machine = "Executor"
    /\ ~exec.failed
    /\ exec.iterations = 2
    /\ exec.iter.vectors = <<>>
    /\ exec.iter.instruction = decode(12504)
    /\ Len(exec.iter.bus) = 3
    /\ exec.iter.bus[3].address = Add32(exec.iter.bus[2].address, 2)

\* C36: the status word the Executor's reset() installs has the supervisor
\* bit (bit 13) set and the interrupt mask (bits 10-8) equal to 7.
C36_ResetStatus ==
    FreshExecutor =>
        LET status == Executor_get_state(exec).state.status
        IN /\ (status \div SupervisorBit) % 2 = 1
           /\ (status \div 256) % 8 = 7

\* The enumerators of ProcessorBase::State, by name.
StateNames ==
    [Reset |-> Reset, Decode |-> Decode, WaitForDTACK |-> WaitForDTACK,
     FetchOperand |-> FetchOperand, StoreOperand |-> StoreOperand,
     CalculateAnDn |-> CalculateAnDn, Perform_np |-> Perform_np,
     Perform_np_n |-> Perform_np_n]

NamesOf(s) == {n \in DOMAIN StateNames : StateNames[n] = s}

\* C37: the identifiers of the named states are all negative and pairwise
\* distinct: whenever the state machine is about to dispatch on a negative
\* state_, at most one name of the enumeration has that identifier, and no
\* name has an identifier that is not negative.
C37_StateIdentifiers ==
    /\ \A n \in DOMAIN StateNames : StateNames[n] < 0
    /\ (phase = "dispatch" /\ cpu.state_ < 0) => Cardinality(NamesOf(cpu.state_)) <= 1

\* ------------------------------------------------------------ Apple Macintosh

\* The processor is not part of a Macintosh's or an Enterprise's bus handler:
\* its variables stay as they are constructed.
ProcessorAside ==
    /\ config = [permit_overrun |-> FALSE, dtack_is_implicit |-> TRUE]
    /\ cpu = InitialProcessor(1)
    /\ phase = "idle"
    /\ site = 0
    /\ tx = Resolve(NoMicrocycle, InitialProcessor(0))
    /\ delay = 0
    /\ log = <<>>
    /\ call = NoCall
    /\ stall = NoStall
    /\ ninstr = 0
    /\ nset = 0

\* The first word address of the device region, and the sizes in words of
\* rom_ and ram_.
DeviceBase == 4194304
RomSize == 32768
RamSize == 65536

\* The word address whose bit tells RAM from ROM in the ordinary map.
RomBit == 2097152

\* The word address the overlaid map compares with.
OverlayRamBase == 6291456

\* Bit b4 of VIA port A.
OverlayBit == 16

\* The word addresses put on the bus: the first and last words of each
\* 2 MB quarter of the memory region, and the VIA's base.
ViaBase == 7860479
WordAddresses ==
    {0, RomBit - 1, RomBit, 3145727, 3145728, DeviceBase - 1, ViaBase}

\* The words of rom_ and ram_ those addresses reach.
RomIndices == {a % RomSize : a \in {w \in WordAddresses : w < DeviceBase}}
RamIndices == {a % RamSize : a \in {w \in WordAddresses : w < DeviceBase}}

\* The ROM image: words no RAM cell of the model comes to hold.
RomImage == [i \in RomIndices |-> IF i = 0 THEN 20081 ELSE 24830]

\* ram_ is not initialised by the constructor: every word is whatever was
\* there.
RamGarbage == {0, 257}

\* The operations of a Microcycle, as sets of its flags.
Operations ==
    { {}, {"NewAddress"}, {"SelectWord", "Read"}, {"SelectByte", "Read"},
      {"SelectWord"}, {"SelectByte"}, {"SelectWord", "InterruptAcknowledge", "Read"} }

\* cycle.byte_shift() is 8 for the upper byte of a word and 0 for the lower.
ByteShifts == {0, 8}

\* The value a cycle brings to a write, or holds before a read.
CycleValue == 4660

\* The cycles the 68000 runs; only a byte cycle may select the upper byte.
Cycles ==
    { c \in [operation : Operations, word_address : WordAddresses,
             byte_shift : ByteShifts, value : {CycleValue}] :
        "SelectByte" \notin c.operation => c.byte_shift = 0 }

NoCycle == [operation |-> {}, word_address |-> 0, byte_shift |-> 0, value |-> CycleValue]

\* cycle.data_select_active(): one of the data strobes is among the flags.
data_select_active(cycle) == cycle.operation \cap {"SelectWord", "SelectByte"} # {}

\* What the VIA does with a cycle: the byte a register read returns, and
\* the value it hands to set_port_output(Port::A, ...) should a write make it
\* call that.
NoDevice == [byte |-> 255, port_a |-> <<>>]
Devices(cycle) ==
    IF cycle.word_address # ViaBase \/ ~data_select_active(cycle) THEN {NoDevice}
    ELSE IF "Read" \in cycle.operation THEN [byte : {0, 255}, port_a : {<<>>}]
    ELSE [byte : {255}, port_a : {<<>>, <<0>>, <<OverlayBit>>}]

\* ConcreteMachine as constructed.
Macintosh(g) ==
    [ROM_is_overlay_ |-> TRUE,
     rom_ |-> RomImage,
     ram_ |-> [i \in RamIndices |-> g],
     is_peripheral_address |-> FALSE,
     cycle |-> NoCycle,
     value |-> NoCycle.value]

\* The memory a data-select cycle below the device region uses.
UsesRam(m, cycle) ==
    \/ "Read" \notin cycle.operation
    \/ m.ROM_is_overlay_ /\ cycle.word_address >= OverlayRamBase
    \/ ~m.ROM_is_overlay_ /\ (cycle.word_address \div RomBit) % 2 = 0

Exp2(shift) == IF shift = 8 THEN 256 ELSE 1

\* The word left by writing the low byte of value at byte_shift.
WordWithByte(word, value, shift) ==
    IF shift = 8 THEN (value % 256) * 256 + (word % 256)
    ELSE (word \div 256) * 256 + (value % 256)

\* The transfer of a data-select cycle below the device region.
MemoryCycle(m, cycle) ==
    LET ram == UsesRam(m, cycle)
        index == cycle.word_address % (IF ram THEN RamSize ELSE RomSize)
        word == IF ram THEN m.ram_[index] ELSE m.rom_[index]
        store(w) == IF ram THEN [m EXCEPT !.ram_[index] = w]
                    ELSE [m EXCEPT !.rom_[index] = w]
        op == cycle.operation \cap {"SelectWord", "SelectByte", "Read", "InterruptAcknowledge"}
    IN CASE op = {"SelectWord", "Read"} -> [m EXCEPT !.value = word]
         [] op = {"SelectByte", "Read"} ->
                [m EXCEPT !.value = (cycle.value \div 256) * 256
                                        + ((word \div Exp2(cycle.byte_shift)) % 256)]
         [] op = {"SelectWord"} -> store(cycle.value)
         [] op = {"SelectByte"} -> store(WordWithByte(word, cycle.value, cycle.byte_shift))
         [] OTHER -> m

\* word_address & 0x7ff0ff: bits 0-7 and 12-22.
DeviceSelect(w) == (w % 256) + ((w \div 4096) % 2048) * 4096

\* The transfer of a data-select cycle in the device region: the VIA answers
\* at ViaBase, and a write to it may change what it drives on port A.
DeviceCycle(m, cycle, device) ==
    IF DeviceSelect(cycle.word_address) # ViaBase THEN m
    ELSE IF "Read" \in cycle.operation
    THEN [m EXCEPT !.value = IF "SelectWord" \in cycle.operation
                              THEN 255 * 256 + device.byte
                              ELSE (cycle.value \div 256) * 256 + device.byte]
    ELSE IF device.port_a = <<>> THEN m
    ELSE [m EXCEPT !.ROM_is_overlay_ = (device.port_a[1] \div OverlayBit) % 2 = 1]

\* ConcreteMachine::perform_bus_operation(): the machine it leaves, with the
\* cycle and the value the cycle holds afterwards. The clocks it advances
\* for the video, the IWM and the VIA have no part in the memory map.
perform_bus_operation(m, cycle, device) ==
    LET m0 == [m EXCEPT !.cycle = cycle, !.value = cycle.value]
    IN IF cycle.operation = {} THEN m0
       ELSE LET m1 == [m0 EXCEPT !.is_peripheral_address = cycle.word_address >= DeviceBase]
            IN IF ~data_select_active(cycle) THEN m1
               ELSE IF cycle.word_address >= DeviceBase THEN DeviceCycle(m1, cycle, device)
               ELSE MemoryCycle(m1, cycle)

MacInit ==
    /\ machine = "Macintosh"
    /\ image \in {CHOOSE i \in ExecImages : TRUE}
    /\ exec \in {Macintosh(g) : g \in RamGarbage}
    /\ ProcessorAside

PerformBusOperation(cycle, device) ==
    /\ exec' = perform_bus_operation(exec, cycle, device)
    /\ UNCHANGED <<procVars, machine>>

MacNext ==
    \E cycle \in Cycles : \E device \in Devices(cycle) : PerformBusOperation(cycle, device)

\* The Macintosh's bus handler, given any cycles the 68000 may run.
SpecMacintosh == MacInit /\ [][MacNext]_vars

ByteAddress(cycle) == 2 * cycle.word_address

\* The word of a memory that a cycle addresses.
RamWord(m, cycle) == m.ram_[cycle.word_address % RamSize]
RomWord(m, cycle) == m.rom_[cycle.word_address % RomSize]

\* The value a read leaves in the cycle, given the word it found.
ReadValue(cycle, word) ==
    IF "SelectWord" \in cycle.operation THEN word
    ELSE (cycle.value \div 256) * 256 + ((word \div Exp2(cycle.byte_shift)) % 256)

IsTransfer(cycle) ==
    /\ cycle.word_address < DeviceBase
    /\ cycle.operation \in {{"SelectWord", "Read"}, {"SelectByte", "Read"}, {"SelectWord"}, {"SelectByte"}}

\* C38: for a data-select cycle below the device region, a read with the
\* overlay enabled returns RAM from byte address $600000 up and ROM below
\* it; a read with the overlay disabled returns RAM below $400000 and ROM from
\* $400000; a write goes to RAM and never changes ROM, whatever the overlay.
C38_MemoryMap ==
    [][(machine = "Macintosh" /\ exec' # exec /\ IsTransfer(exec'.cycle)) =>
        LET cycle == exec'.cycle
            ram == IF exec.ROM_is_overlay_ THEN ByteAddress(cycle) >= 6291456
                   ELSE ByteAddress(cycle) < 4194304
        IN /\ exec'.rom_ = exec.rom_
           /\ IF "Read" \in cycle.operation
              THEN /\ exec'.ram_ = exec.ram_
                   /\ exec'.value = ReadValue(cycle, IF ram THEN RamWord(exec, cycle)
                                                    ELSE RomWord(exec, cycle))
              ELSE /\ exec'.ram_ = [exec.ram_ EXCEPT ![cycle.word_address % RamSize] =
                            IF "SelectWord" \in cycle.operation THEN cycle.value
                            ELSE WordWithByte(@, cycle.value, cycle.byte_shift)]]_vars

\* ------------------------------------------------------------ Enterprise

\* The bitwise and of two bytes.
RECURSIVE AndBits(_, _, _)
AndBits(a, b, n) ==
    IF n = 0 THEN 0
    ELSE (IF a % 2 = 1 /\ b % 2 = 1 THEN 1 ELSE 0) + 2 * AndBits(a \div 2, b \div 2, n - 1)

ANDByte(a, b) == AndBits(a, b, 8)

\* Interrupt::Nick, the bits of a write to port 0xb4 that interrupt_mask_
\* keeps, and the port itself.
NickInterrupt == 32
MaskBits == 85
InterruptPort == 180

\* The other ports the model drives: page register 0, the key line, and a
\* port that no case handles.
PagePort == 176
KeyPort == 181
UnhandledPort == 0

\* The bits of a write to port 0xb5 that select the key line, and the number
\* of key lines.
KeyLineBits == 15
KeyLines == 10

\* The addresses of the I/O cycles: each port, and port 0xb4 again with
\* other upper address bits.
IOAddresses == {InterruptPort, 4608 + InterruptPort, PagePort, KeyPort, UnhandledPort}

\* The bytes written to a port.
PortValues == {0, 16, 32, 48, 255}

\* The partial machine cycles the Z80 runs here. Memory cycles (Read,
\* ReadOpcode, Write) go through read_pointers_ and write_pointers_ to exos_
\* and ram_ and touch no member below; "Internal" stands for the cycles of
\* the switch's default.
NoMachineCycle == [operation |-> "Internal", address |-> 0, value |-> 255]
MachineCycles ==
    {NoMachineCycle}
        \cup [operation : {"Input"}, address : IOAddresses, value : {255}]
        \cup [operation : {"Output"}, address : IOAddresses, value : PortValues]

\* What surrounds the machine during a cycle: whether nick_ += cycle.length
\* reports that Nick has been run, the interrupt line Nick then holds, and
\* the byte found in key_lines_, which nothing initialises.
Surroundings(cycle) ==
    [flushed : BOOLEAN, line : BOOLEAN,
     key : IF cycle.operation = "Input" /\ cycle.address % 256 = KeyPort
           THEN {0, 255} ELSE {255}]

\* ConcreteMachine as constructed; interrupt_line is the level last given to
\* z80_.set_interrupt_line, and written the byte last written to port 0xb4.
Enterprise ==
    [interrupt_mask_ |-> 0,
     interrupt_state_ |-> 0,
     previous_nick_interrupt_line_ |-> FALSE,
     interrupt_line |-> FALSE,
     pages_ |-> [slot \in 0..3 |-> 0],
     active_key_line_ |-> 0,
     failed |-> FALSE,
     written |-> <<>>,
     cycle |-> NoMachineCycle,
     nick |-> [flushed |-> FALSE, line |-> FALSE, key |-> 255],
     value |-> 255]

\* A variant of update_interrupts() that does not shift interrupt_state_.
update_interrupts_Unshifted(m) ==
    [m EXCEPT !.interrupt_line = ANDByte(m.interrupt_state_, m.interrupt_mask_) # 0]

\* update_interrupts().
update_interrupts(m) ==
    [m EXCEPT !.interrupt_line = ANDByte(m.interrupt_state_ \div 2, m.interrupt_mask_) # 0]

\* set_interrupt(mask).
set_interrupt(m, mask) ==
    update_interrupts([m EXCEPT !.interrupt_state_ = ORByte(@, mask)])

\* page<slot>(offset), less the pointers it derives from pages_[slot].
page(m, slot, offset) == [m EXCEPT !.pages_[slot] = offset]

\* The edge detection at the head of perform_machine_cycle.
NickStep(m, nick) ==
    IF ~nick.flushed THEN m
    ELSE [(IF nick.line /\ ~m.previous_nick_interrupt_line_
           THEN set_interrupt(m, NickInterrupt) ELSE m)
            EXCEPT !.previous_nick_interrupt_line_ = nick.line]

\* case PartialMachineCycle::Input.
InputCycle(m, port, nick) ==
    CASE port \in PagePort..(PagePort + 3) -> [m EXCEPT !.value = m.pages_[port - PagePort]]
      [] port = InterruptPort ->
            [m EXCEPT !.value = ORByte(m.interrupt_mask_, m.interrupt_state_)]
      [] port = KeyPort ->
            [m EXCEPT !.value = IF m.active_key_line_ < KeyLines THEN nick.key ELSE 255]
      [] OTHER -> [m EXCEPT !.failed = TRUE]

\* case PartialMachineCycle::Output; the ports of Nick, the audio, the
\* printer and Dave change no member.
OutputCycle(m, port, value) ==
    CASE port \in PagePort..(PagePort + 3) -> page(m, port - PagePort, value)
      [] port = InterruptPort ->
            update_interrupts(
                [m EXCEPT !.interrupt_mask_ = ANDByte(value, MaskBits),
                          !.interrupt_state_ = ANDByte(@, 255 - value),
                          !.written = <<value>>])
      [] port = KeyPort -> [m EXCEPT !.active_key_line_ = ANDByte(value, KeyLineBits)]
      [] port \in 128..175 \/ port \in {182, 191} -> m
      [] OTHER -> [m EXCEPT !.failed = TRUE]

\* ConcreteMachine::perform_machine_cycle().
perform_machine_cycle(m, cycle, nick) ==
    LET m0 == NickStep([m EXCEPT !.cycle = cycle, !.nick = nick, !.value = cycle.value], nick)
    IN CASE cycle.operation = "Input" -> InputCycle(m0, cycle.address % 256, nick)
         [] cycle.operation = "Output" -> OutputCycle(m0, cycle.address % 256, cycle.value)
         [] OTHER -> m0

EnterpriseInit ==
    /\ machine = "Enterprise"
    /\ image \in {CHOOSE i \in ExecImages : TRUE}
    /\ exec = Enterprise
    /\ ProcessorAside

PerformMachineCycle(cycle, nick) ==
    /\ ~exec.failed
    /\ exec' = perform_machine_cycle(exec, cycle, nick)
    /\ UNCHANGED <<procVars, machine>>

EnterpriseNext ==
    \E cycle \in MachineCycles : \E nick \in Surroundings(cycle) :
        PerformMachineCycle(cycle, nick)

\* The Enterprise's bus handler, given any I/O cycles and any Nick.
SpecEnterprise == EnterpriseInit /\ [][EnterpriseNext]_vars

Latched(m) == ANDByte(m.interrupt_state_, NickInterrupt) # 0

\* The last value written to port 0xb4; 0 before any.
LastWritten(m) == IF m.written = <<>> THEN 0 ELSE m.written[1]

\* Whether a cycle writes port 0xb4 with bit 0x20 set.
Acknowledges(cycle) ==
    /\ cycle.operation = "Output"
    /\ cycle.address % 256 = InterruptPort
    /\ ANDByte(cycle.value, NickInterrupt) # 0

\* Whether a cycle found Nick's line raised since it was last looked at.
RisingEdge(m, nick) == nick.flushed /\ nick.line /\ ~m.previous_nick_interrupt_line_

\* C39, of the states: the interrupt line given to the Z80 is asserted
\* exactly when the Nick latch is set and bit 0x10 of the last value written
\* to port 0xb4 is set; interrupt_state_ holds no bit but the Nick latch.
C39_LineFollowsLatch ==
    machine = "Enterprise" =>
        /\ exec.interrupt_line = (Latched(exec) /\ ANDByte(LastWritten(exec), 16) # 0)
        /\ exec.interrupt_state_ \in {0, NickInterrupt}

\* C39, of the steps: the latch is set only by a cycle that finds a rising
\* edge of Nick's line, is cleared only by a write to port 0xb4 with bit 0x20
\* set, which always clears it, and a read of port 0xb4 returns the enable
\* mask or-ed with the latches.
C39_LatchSteps ==
    (machine = "Enterprise" /\ exec' # exec) =>
        LET cycle == exec'.cycle
        IN /\ (Latched(exec') /\ ~Latched(exec)) => RisingEdge(exec, exec'.nick)
           /\ (Latched(exec) /\ ~Latched(exec')) => Acknowledges(cycle)
           /\ Acknowledges(cycle) => ~Latched(exec')
           /\ (RisingEdge(exec, exec'.nick) /\ ~Acknowledges(cycle)) => Latched(exec')
           /\ (cycle.operation = "Input" /\ cycle.address % 256 = InterruptPort) =>
                    exec'.value = ORByte(ANDByte(LastWritten(exec'), MaskBits),
                                         IF Latched(exec') THEN 32 ELSE 0)

\* C39: the Enterprise's interrupt logic, after any sequence of port writes
\* and changes of Nick's interrupt line: the Nick interrupt is latched only
\* on a rising edge of Nick's line, stays latched until port 0xb4 is written
\* with bit 0x20 set, the Z80's interrupt line is asserted exactly when the
\* latch is set and the enable bit 0x10 of the last value written to port
\* 0xb4 is set, and reading port 0xb4 returns the enable mask or-ed with the
\* latches.
C39_InterruptLogic ==
    C39_LineFollowsLatch /\ [][C39_LatchSteps /\ C39_LineFollowsLatch']_vars

C39_Witness ==
    /\ machine = "Enterprise"
    /\ exec.cycle.operation = "Input"
    /\ exec.cycle.address % 256 = InterruptPort
    /\ exec.written = <<16>>
    /\ exec.value = 48
    /\ exec.interrupt_line

=============================================================================
